---- MODULE Spec2Model ----
(***************************************************************************)
(* Model of the Xet CAS engine of kohakuhub: the block endpoints           *)
(* (api/xet/routers/cas.py), the cache tiers (utils/xet.py,                *)
(* utils/disk_cache.py), the chunker (api/xet/chunker.py), the compactor   *)
(* (api/xet/compactor.py) and the reconstruction protocol (cas.py).        *)
(*                                                                         *)
(* Byte strings are sequences over Symbols.  One symbol stands for one     *)
(* unit of 2 MiB of content, and every size of the program is counted in   *)
(* that unit: CHUNK_TARGET_SIZE (4 MiB) is 2, CHUNK_SIZE_BYTES (64 MiB) is *)
(* 32, TARGET_XORB_SIZE (100 MiB) is 50.                                   *)
(***************************************************************************)
EXTENDS Naturals, Integers, Sequences, FiniteSets, TLC

VARIABLES
    s3,                \* the origin bucket: S3 key -> object bytes
    XetBlock,          \* registry table: sequence of rows [hash, size], row id = index
    redis,             \* [kv: hot cache, blocks_all: membership set, bloom: filter bits]
    disk,              \* local disk cache: block hash -> bytes
    redis_enabled,     \* cfg.redis.enabled
    File,              \* registry table: sequence of rows [sha256, size, lfs], row id = index
    XetFileLayout,     \* registry table: sequence of rows [file, block, sequence_order]
    XetXorb,           \* registry table: sequence of rows [xorb_id, storage_key, size]
    XetBlockPlacement, \* registry table: sequence of rows [block, xorb, offset, length]
    XetShard,          \* registry table: sequence of rows [shard_id, storage_key, size]
    metrics,           \* the XetMetrics singleton
    calls,             \* ghost: the number of record_dedup calls made so far
    worker,            \* xet_background_worker: [pc, loop_count, todo, recovered]
    acked,             \* ghost: hash -> body of every put_block answered 200
    inflight,          \* the requests under way: sequence of [op, pc, ...], one per request
    resp               \* the last response handed to a caller

vars == <<s3, XetBlock, redis, disk, redis_enabled, File, XetShard, XetFileLayout, XetXorb,
          XetBlockPlacement, metrics, calls, worker, acked, inflight, resp>>

\* the tables the block endpoints never touch
fileVars == <<File, XetShard, XetFileLayout, XetXorb, XetBlockPlacement>>

\* The background worker before its first iteration; it stays so in the
\* specifications that leave it out.
WorkerIdle == [pc |-> "scan", loop_count |-> 0, todo |-> << >>, caught |-> {}]

----------------------------------------------------------------------------
(* Bounds *)

\* number of bits of the bloom filter
BloomBits == 1
\* cap on the metrics observations (dedup_hits + dedup_misses) of one run
MaxObs == 2

\* longest file content, in units
MaxFileLen == 5
\* largest size of an unchunked file, in units (75 units = 150 MiB)
MaxFileSize == 75

\* most blocks in the registry when the compactor starts
MaxBlocks == 30
\* how many blocks of the registry have an object whose fetch may fail
MaxFlaky == 1
\* most rows of the shard registry before another shard is put or merged
MaxShardRows == 2
\* most blocks in the registry when shards are generated
MaxShardBlocks == 1
\* most record_dedup calls made on the metrics singleton alone
MaxCalls == 22

\* The alphabet of the byte strings.
Symbols == 0..5

\* The symbols of the file contents that are chunked.
FileSymbols == {0, 1}

\* every byte string of at most n symbols of FileSymbols
RECURSIVE SeqsUpTo(_)
SeqsUpTo(n) ==
    IF n = 0 THEN {<< >>}
    ELSE LET prev == SeqsUpTo(n - 1)
         IN  prev \cup {Append(c, x) : c \in {p \in prev : Len(p) = n - 1}, x \in FileSymbols}

\* The bodies the clients PUT: the empty body and a non-empty one.
Bodies == {<< >>, <<0>>}

\* The cache tiers whose calls may raise during one operation.
Tiers == {"hot", "set", "bloom", "disk"}

----------------------------------------------------------------------------
(* Pure helpers *)

\* hashlib.sha256(content).hexdigest(): an injective code of the byte string
\* (bijective numeration in base Cardinality(Symbols) + 1), never the string itself.
RECURSIVE sha256(_)
sha256(content) ==
    IF content = << >> THEN 0
    ELSE (Head(content) + 1) + (Cardinality(Symbols) + 1) * sha256(Tail(content))

Hashes == {sha256(b) : b \in Bodies}

get_xet_block_s3_key(block_hash) == <<"cas/blocks", block_hash>>

\* position of a hash in the bloom filter's bit array
BloomPos(block_hash) == block_hash % BloomBits

Put(f, k, v) == [x \in (DOMAIN f) \cup {k} |-> IF x = k THEN v ELSE f[x]]

\* s3.delete_object for each key of `keys`
Remove(f, keys) == [x \in (DOMAIN f) \ keys |-> f[x]]

RECURSIVE ConcatAll(_)
ConcatAll(ss) == IF ss = << >> THEN << >> ELSE Head(ss) \o ConcatAll(Tail(ss))

RECURSIVE SumAll(_)
SumAll(ns) == IF ns = << >> THEN 0 ELSE Head(ns) + SumAll(Tail(ns))

object_exists(key) == key \in DOMAIN s3

\* XetBlock.get_or_none(XetBlock.hash == h): 0 when there is no row, else the row id
BlockId(table, h) ==
    IF \E i \in 1..Len(table) : table[i].hash = h
    THEN CHOOSE i \in 1..Len(table) : table[i].hash = h
    ELSE 0

\* a get_or_create whose insert is lost
get_or_create_unsaved(table, h, size) == table

\* XetBlock.get_or_create(hash=h, defaults={"size": size})
get_or_create(table, h, size) ==
    IF BlockId(table, h) # 0 THEN table
    ELSE Append(table, [hash |-> h, size |-> size])

----------------------------------------------------------------------------
(* utils/xet.py: the cache tiers.  `down` is the set of tiers whose calls  *)
(* raise during the operation at hand.                                     *)

check_block_exists_fast(R, h, down) ==
    IF ~redis_enabled THEN FALSE
    ELSE IF "set" \in down THEN FALSE
    ELSE h \in R.blocks_all

mark_block_as_existing(R, h, down) ==
    IF ~redis_enabled THEN R
    ELSE IF "set" \in down THEN R
    ELSE [R EXCEPT !.blocks_all = @ \cup {h}]

get_cached_block(R, h, down) ==
    IF ~redis_enabled THEN [found |-> FALSE, content |-> << >>]
    ELSE IF "hot" \in down THEN [found |-> FALSE, content |-> << >>]
    ELSE IF h \in DOMAIN R.kv THEN [found |-> TRUE, content |-> R.kv[h]]
    ELSE [found |-> FALSE, content |-> << >>]

cache_block(R, h, content, down) ==
    IF ~redis_enabled THEN R
    ELSE IF "hot" \in down THEN R
    ELSE mark_block_as_existing([R EXCEPT !.kv = Put(R.kv, h, content)], h, down)

\* check_block_exists_bloom failing open: a disabled or failing cache answers true
check_block_exists_bloom_fail_open(R, h, down) ==
    IF ~redis_enabled THEN TRUE
    ELSE IF "bloom" \notin down THEN BloomPos(h) \in R.bloom
    ELSE IF "set" \notin down THEN h \in R.blocks_all
    ELSE TRUE

check_block_exists_bloom(R, h, down) ==
    IF ~redis_enabled THEN FALSE
    ELSE IF "bloom" \notin down THEN BloomPos(h) \in R.bloom
    ELSE IF "set" \notin down THEN h \in R.blocks_all
    ELSE FALSE

mark_block_in_bloom(R, h, down) ==
    IF ~redis_enabled THEN R
    ELSE IF "bloom" \notin down THEN [R EXCEPT !.bloom = @ \cup {BloomPos(h)}]
    ELSE IF "set" \notin down THEN [R EXCEPT !.blocks_all = @ \cup {h}]
    ELSE R

(* utils/disk_cache.py *)

get_from_cache(D, h, down) ==
    IF "disk" \in down THEN [found |-> FALSE, content |-> << >>]
    ELSE IF h \in DOMAIN D THEN [found |-> TRUE, content |-> D[h]]
    ELSE [found |-> FALSE, content |-> << >>]

save_to_cache(D, h, content, down) ==
    IF "disk" \in down THEN D ELSE Put(D, h, content)

(* api/xet/metrics.py *)

\* record_dedup with the two branches swapped
record_dedup_swapped(M, hit, size) ==
    IF hit
    THEN [M EXCEPT !.dedup_misses = @ + 1, !.total_bytes_uploaded = @ + size]
    ELSE [M EXCEPT !.dedup_hits = @ + 1, !.total_bytes_saved = @ + size]

record_dedup(M, hit, size) ==
    IF hit
    THEN [M EXCEPT !.dedup_hits = @ + 1, !.total_bytes_saved = @ + size]
    ELSE [M EXCEPT !.dedup_misses = @ + 1, !.total_bytes_uploaded = @ + size]

Observations == metrics.dedup_hits + metrics.dedup_misses

\* Python floats are IEEE 754 doubles: 53 significant bits.
MANT_BITS == 53

\* A double is [exp, mant]: mant is MANT_BITS bits, most significant first, and
\* the value is the sum of mant[i] * 2^(exp - (i - 1)).  A non-zero double has
\* mant[1] = 1; 0.0 is all bits zero.
float_zero == [exp |-> 0, mant |-> [i \in 1..MANT_BITS |-> 0]]

\* the binary digits of n >= 1, most significant first
RECURSIVE int_bits(_)
int_bits(n) == IF n = 0 THEN << >> ELSE int_bits(n \div 2) \o <<n % 2>>

\* bits + 1, as long as bits; all zero when bits was all ones
bits_increment(bits) ==
    LET zeros == {i \in 1..Len(bits) : bits[i] = 0}
        last == CHOOSE i \in zeros : \A j \in zeros : j <= i
    IN  IF zeros = {} THEN [i \in 1..Len(bits) |-> 0]
        ELSE [i \in 1..Len(bits) |-> IF i < last THEN bits[i] ELSE IF i = last THEN 1 ELSE 0]

\* bits - 1, as long as bits (bits is not all zero)
bits_decrement(bits) ==
    LET ones == {i \in 1..Len(bits) : bits[i] = 1}
        last == CHOOSE i \in ones : \A j \in ones : j <= i
    IN  [i \in 1..Len(bits) |-> IF i < last THEN bits[i] ELSE IF i = last THEN 0 ELSE 1]

\* Round to nearest, ties to even: bits (first bit 1, first bit worth 2^exp) and
\* `sticky`, which says that the exact value has more below the last bit.
float_round(bits, exp, sticky) ==
    IF Len(bits) <= MANT_BITS
    THEN [exp |-> exp, mant |-> bits \o [i \in 1..(MANT_BITS - Len(bits)) |-> 0]]
    ELSE LET keep == SubSeq(bits, 1, MANT_BITS)
             guard == bits[MANT_BITS + 1]
             rest == sticky \/ \E i \in (MANT_BITS + 2)..Len(bits) : bits[i] = 1
             up == guard = 1 /\ (rest \/ keep[MANT_BITS] = 1)
             next == bits_increment(keep)
         IN  IF ~up THEN [exp |-> exp, mant |-> keep]
             ELSE IF next[1] = 1 THEN [exp |-> exp, mant |-> next]
             ELSE [exp |-> exp + 1, mant |-> <<1>> \o SubSeq(next, 2, MANT_BITS)]

\* float(n) for a small integer n >= 0: exact
float_of_int(n) ==
    IF n = 0 THEN float_zero ELSE float_round(int_bits(n), Len(int_bits(n)) - 1, FALSE)

\* 2^k modulo t, by squaring
RECURSIVE pow2mod(_, _)
pow2mod(k, t) ==
    IF k = 0 THEN 1 % t
    ELSE IF k % 2 = 0 THEN (pow2mod(k \div 2, t) * pow2mod(k \div 2, t)) % t
    ELSE (2 * pow2mod(k - 1, t)) % t

\* what start * 2^k leaves when divided by t
div_rem(start, t, k) == ((start % t) * pow2mod(k, t)) % t

\* the first n bits of start / t, for t <= start < 2 * t: bit 1 is worth 1, and
\* bit i is the next binary digit of what start * 2^(i - 2) leaves
div_bits(start, t, n) ==
    [i \in 1..n |-> IF i = 1 THEN 1 ELSE (2 * div_rem(start, t, i - 2)) \div t]

\* the number of doublings that bring h up to t, for 1 <= h
RECURSIVE shift_to(_, _)
shift_to(h, t) == IF h >= t THEN 0 ELSE 1 + shift_to(2 * h, t)

RECURSIVE pow2(_)
pow2(n) == IF n = 0 THEN 1 ELSE 2 * pow2(n - 1)

\* h / t for integers 0 <= h <= t, 1 <= t: the correctly rounded quotient
int_truediv(h, t) ==
    IF h = 0 THEN float_zero
    ELSE LET shift == shift_to(h, t)
             start == h * pow2(shift)
         IN  float_round(div_bits(start, t, MANT_BITS + 1), 0 - shift,
                         div_rem(start, t, MANT_BITS) # 0)

\* bits * n + carry, as [carry, bits]: as many bits as came in and the carry
\* that leaves on the left; the right half first (the test on its carry makes it
\* the first to be computed), its carry into the left half
RECURSIVE bits_times_carry(_, _, _)
bits_times_carry(bits, n, carry) ==
    IF Len(bits) = 1
    THEN [carry |-> (bits[1] * n + carry) \div 2, bits |-> <<(bits[1] * n + carry) % 2>>]
    ELSE LET m == Len(bits) \div 2
             right == bits_times_carry(SubSeq(bits, m + 1, Len(bits)), n, carry)
             left == bits_times_carry(SubSeq(bits, 1, m), n, right.carry)
         IN  IF right.carry < 0 THEN right
             ELSE [carry |-> left.carry, bits |-> left.bits \o right.bits]

\* bits * n + carry, as bits
bits_times(bits, n, carry) ==
    LET r == bits_times_carry(bits, n, carry)
    IN  int_bits(r.carry) \o r.bits

\* x * n for a double x >= 0 and a small integer n >= 0 (float(n) is exact): the
\* exact product, rounded once
float_times_int(x, n) ==
    IF x = float_zero \/ n = 0 THEN float_zero
    ELSE LET product == bits_times(x.mant, n, 0)
         IN  float_round(product, x.exp + (Len(product) - MANT_BITS), FALSE)

\* the doubles next to a double x > 0
float_next_up(x) ==
    LET next == bits_increment(x.mant)
    IN  IF next[1] = 1 THEN [exp |-> x.exp, mant |-> next]
        ELSE [exp |-> x.exp + 1, mant |-> <<1>> \o SubSeq(next, 2, MANT_BITS)]
float_next_down(x) ==
    LET prev == bits_decrement(x.mant)
    IN  IF prev[1] = 1 THEN [exp |-> x.exp, mant |-> prev]
        ELSE [exp |-> x.exp - 1, mant |-> [i \in 1..MANT_BITS |-> 1]]

\* XetMetrics.record_dedup(hit, size), as a call on the singleton; the ghost
\* counter is kept from running away by MaxCalls
record_dedup_call(hit, size) ==
    /\ calls < MaxCalls
    /\ metrics' = record_dedup(metrics, hit, size)
    /\ calls' = calls + 1
    /\ resp' = [op |-> "record_dedup", hash |-> 0, status |-> 0, body |-> << >>,
                location |-> [key |-> << >>, range |-> << >>]]
    /\ UNCHANGED <<s3, XetBlock, redis, disk, redis_enabled, File, XetShard, XetFileLayout,
                   XetXorb, XetBlockPlacement, acked, inflight>>

\* XetMetrics.get_dedup_ratio(): the answer is handed back in resp.body
get_dedup_ratio ==
    LET total == metrics.dedup_hits + metrics.dedup_misses
    IN  /\ resp' = [op |-> "get_dedup_ratio", hash |-> 0, status |-> 0,
                    body |-> IF total = 0 THEN float_zero
                             ELSE int_truediv(metrics.dedup_hits, total),
                    location |-> [key |-> << >>, range |-> << >>]]
        /\ UNCHANGED <<s3, XetBlock, redis, disk, redis_enabled, File, XetShard,
                       XetFileLayout, XetXorb, XetBlockPlacement, metrics, calls, acked, inflight>>

----------------------------------------------------------------------------
(* api/xet/routers/cas.py: the block endpoints *)

\* no Location header
NoUrl == [key |-> << >>, range |-> << >>]

NoResp == [op |-> "none", hash |-> 0, status |-> 0, body |-> << >>, location |-> NoUrl]

Reply(op, h, status, body, location) ==
    [op |-> op, hash |-> h, status |-> status, body |-> body, location |-> location]

\* generate_download_presigned_url(bucket, key): following it reads s3[key]
presigned_url(key) == [key |-> key, range |-> << >>]

\* generate_download_presigned_url(bucket, key, range_header="bytes=first-last"):
\* following it reads the bytes first..last (inclusive, 0-based) of s3[key]
presigned_range_url(key, first, last) == [key |-> key, range |-> <<first, last>>]

\* The tier at which head_block finds the block ("none": nowhere, 404).
head_block_tier(h, down) ==
    IF check_block_exists_bloom(redis, h, down) THEN "bloom"
    ELSE IF check_block_exists_fast(redis, h, down) THEN "fast"
    ELSE IF BlockId(XetBlock, h) # 0 THEN "db"
    ELSE IF object_exists(get_xet_block_s3_key(h)) THEN "s3"
    ELSE "none"

head_block_status(h, down) ==
    IF head_block_tier(h, down) = "none" THEN 404 ELSE 200

head_block(h, down) ==
    LET tier == head_block_tier(h, down)
        table == IF tier = "s3" THEN get_or_create(XetBlock, h, 0) ELSE XetBlock
    IN  /\ tier \in {"db", "s3"} => Observations < MaxObs
        /\ XetBlock' = table
        /\ IF tier \in {"db", "s3"}
           THEN /\ redis' = mark_block_as_existing(redis, h, down)
                /\ metrics' = record_dedup(metrics, TRUE, table[BlockId(table, h)].size)
                /\ calls' = calls + 1
           ELSE UNCHANGED <<redis, metrics, calls>>
        /\ resp' = Reply("head_block", h, head_block_status(h, down), << >>, NoUrl)
        /\ UNCHANGED <<s3, disk, redis_enabled, acked, inflight, fileVars>>

\* get_block without its origin fallback: a miss of both caches answers 404.
get_block_result_no_origin(h, down) ==
    LET cached == get_cached_block(redis, h, down)
        content == get_from_cache(disk, h, down)
    IN  IF cached.found /\ cached.content # << >>
        THEN [tier |-> "hot", status |-> 200, body |-> cached.content, location |-> NoUrl]
        ELSE IF content.found /\ content.content # << >>
        THEN [tier |-> "disk", status |-> 200, body |-> content.content, location |-> NoUrl]
        ELSE [tier |-> "none", status |-> 404, body |-> << >>, location |-> NoUrl]

\* What get_block answers, and the tier that served it.  Python's `if cached:`
\* and `if content:` are truth tests of a bytes value: empty bytes count as a miss.
get_block_result(h, down) ==
    LET cached == get_cached_block(redis, h, down)
        content == get_from_cache(disk, h, down)
        s3_key == get_xet_block_s3_key(h)
    IN  IF cached.found /\ cached.content # << >>
        THEN [tier |-> "hot", status |-> 200, body |-> cached.content, location |-> NoUrl]
        ELSE IF content.found /\ content.content # << >>
        THEN [tier |-> "disk", status |-> 200, body |-> content.content, location |-> NoUrl]
        ELSE IF ~object_exists(s3_key)
        THEN [tier |-> "none", status |-> 404, body |-> << >>, location |-> NoUrl]
        ELSE [tier |-> "s3", status |-> 307, body |-> << >>, location |-> presigned_url(s3_key)]

get_block(h, down) ==
    LET r == get_block_result(h, down)
    IN  /\ r.tier = "disk" => Observations < MaxObs
        /\ metrics' = IF r.tier = "disk" THEN record_dedup(metrics, TRUE, Len(r.body))
                      ELSE metrics
        /\ calls' = IF r.tier = "disk" THEN calls + 1 ELSE calls
        /\ resp' = Reply("get_block", h, r.status, r.body, r.location)
        /\ UNCHANGED <<s3, XetBlock, redis, disk, redis_enabled, acked, inflight, fileVars>>

\* put_block with the integrity check left out.
put_block_verify_skipped(block_hash, content) == TRUE

\* put_block's integrity check: actual_hash == block_hash
put_block_verify(block_hash, content) == sha256(content) = block_hash

\* `fault` is the remote call that raises during the request: "s3" (the origin
\* put_object), "db" (the registry get_or_create) or "none".
PutFaults == {"none", "s3", "db"}

put_block(block_hash, content, down, fault) ==
    LET size == Len(content)
        s3_key == get_xet_block_s3_key(block_hash)
    IN  IF ~put_block_verify(block_hash, content)
        THEN /\ resp' = Reply("put_block", block_hash, 400, << >>, NoUrl)
             /\ UNCHANGED <<s3, XetBlock, redis, disk, redis_enabled, metrics, calls, acked, inflight, fileVars>>
        ELSE IF fault = "s3"
        THEN /\ resp' = Reply("put_block", block_hash, 500, << >>, NoUrl)
             /\ UNCHANGED <<s3, XetBlock, redis, disk, redis_enabled, metrics, calls, acked, inflight, fileVars>>
        ELSE IF fault = "db"
        THEN /\ s3' = Put(s3, s3_key, content)
             /\ resp' = Reply("put_block", block_hash, 500, << >>, NoUrl)
             /\ UNCHANGED <<XetBlock, redis, disk, redis_enabled, metrics, calls, acked, inflight, fileVars>>
        ELSE /\ Observations < MaxObs
             /\ s3' = Put(s3, s3_key, content)
             /\ XetBlock' = get_or_create(XetBlock, block_hash, size)
             /\ metrics' = record_dedup(metrics, FALSE, size)
             /\ calls' = calls + 1
             /\ disk' = save_to_cache(disk, block_hash, content, down)
             /\ redis' = mark_block_in_bloom(
                            mark_block_as_existing(
                                cache_block(redis, block_hash, content, down),
                                block_hash, down),
                            block_hash, down)
             /\ acked' = Put(acked, block_hash, content)
             /\ UNCHANGED inflight
             /\ resp' = Reply("put_block", block_hash, 200, <<block_hash, size>>, NoUrl)
             /\ UNCHANGED <<redis_enabled, fileVars>>

\* The hot cache entry of a block reaches its ttl (cache_block's setex).
redis_expire(h) ==
    /\ h \in DOMAIN redis.kv
    /\ redis' = [redis EXCEPT !.kv = [x \in (DOMAIN redis.kv) \ {h} |-> redis.kv[x]]]
    /\ UNCHANGED <<s3, XetBlock, disk, redis_enabled, metrics, calls, acked, inflight, resp, fileVars>>

----------------------------------------------------------------------------
(* api/xet/chunker.py *)

\* Simulated CDC target chunk size: 4 MiB, in units of 2 MiB.
CHUNK_TARGET_SIZE == 2

Min(a, b) == IF a <= b THEN a ELSE b

\* S3 key of the raw LFS object of a file
lfs_key(file_sha256) == <<"lfs", file_sha256>>

\* content[i:i+CHUNK_TARGET_SIZE] for i in range(0, len(content), CHUNK_TARGET_SIZE);
\* i is the 0-based start of the next window.
RECURSIVE chunks_from(_, _)
chunks_from(content, i) ==
    IF i >= Len(content) THEN << >>
    ELSE <<SubSeq(content, i + 1, Min(i + CHUNK_TARGET_SIZE, Len(content)))>>
             \o chunks_from(content, i + CHUNK_TARGET_SIZE)

split_chunks(content) == chunks_from(content, 0)

\* The registry after step 1 (XetBlock.get_or_create) of the first j iterations.
RECURSIVE register_chunks(_, _, _)
register_chunks(table, chunks, j) ==
    IF j = 0 THEN table
    ELSE get_or_create(register_chunks(table, chunks, j - 1),
                       sha256(chunks[j]), Len(chunks[j]))

\* The bucket after step 2 (s3.put_object) of the first j iterations.
RECURSIVE upload_chunks(_, _, _)
upload_chunks(store, chunks, j) ==
    IF j = 0 THEN store
    ELSE Put(upload_chunks(store, chunks, j - 1),
             get_xet_block_s3_key(sha256(chunks[j])), chunks[j])

\* the rows of step 3 without the one of the last iteration
layout_rows_partial(table, f, chunks) ==
    [j \in 1..(Len(chunks) - 1) |->
        [file |-> f, block |-> BlockId(table, sha256(chunks[j])), sequence_order |-> j - 1]]

\* The rows step 3 (XetFileLayout.create) adds: seq counts from 0 (enumerate).
layout_rows(table, f, chunks) ==
    [j \in 1..Len(chunks) |->
        [file |-> f, block |-> BlockId(table, sha256(chunks[j])), sequence_order |-> j - 1]]

\* Redis after step 4 (mark_block_as_existing, mark_block_in_bloom) of the first
\* j iterations.
RECURSIVE mark_chunks(_, _, _, _)
mark_chunks(R, chunks, j, down) ==
    IF j = 0 THEN R
    ELSE mark_block_in_bloom(
             mark_block_as_existing(mark_chunks(R, chunks, j - 1, down),
                                    sha256(chunks[j]), down),
             sha256(chunks[j]), down)

\* the check that finds no layout, whatever the table holds
already_chunked_never(f) == FALSE

\* XetFileLayout.select().where(XetFileLayout.file == file_record).exists()
already_chunked(f) == \E r \in 1..Len(XetFileLayout) : XetFileLayout[r].file = f

\* What raises during one chunk_lfs_file call: nothing, the fetch of the raw
\* object, or, in iteration `at` of the loop, the block registration, the block
\* upload or the layout insert.
NoFault == [at |-> 0, stage |-> "none"]
ChunkFaults(n) ==
    {NoFault, [at |-> 0, stage |-> "fetch"]}
        \cup {[at |-> k, stage |-> st] : k \in 1..n, st \in {"register", "upload", "layout"}}

\* how many iterations have uploaded their block when the fault strikes
uploaded_before(fault) == IF fault.stage = "layout" THEN fault.at ELSE fault.at - 1

chunk_lfs_file(f, down, fault) ==
    LET file_record == File[f]
        key == lfs_key(file_record.sha256)
    IN  IF ~file_record.lfs
        THEN /\ resp' = Reply("chunk_lfs_file", file_record.sha256, 0, << >>, NoUrl)
             /\ UNCHANGED <<s3, XetBlock, redis, disk, redis_enabled, File, XetShard, XetFileLayout,
                            XetXorb, XetBlockPlacement, metrics, calls, acked, inflight>>
        ELSE IF already_chunked(f)
        THEN /\ resp' = Reply("chunk_lfs_file", file_record.sha256, 1, << >>, NoUrl)
             /\ UNCHANGED <<s3, XetBlock, redis, disk, redis_enabled, File, XetShard, XetFileLayout,
                            XetXorb, XetBlockPlacement, metrics, calls, acked, inflight>>
        ELSE IF fault.stage = "fetch" \/ ~object_exists(key)
        THEN /\ resp' = Reply("chunk_lfs_file", file_record.sha256, 0, << >>, NoUrl)
             /\ UNCHANGED <<s3, XetBlock, redis, disk, redis_enabled, File, XetShard, XetFileLayout,
                            XetXorb, XetBlockPlacement, metrics, calls, acked, inflight>>
        ELSE LET chunks == split_chunks(s3[key])
                 n == Len(chunks)
                 table == register_chunks(XetBlock, chunks, n)
             IN  IF fault.stage = "none" \/ fault.at > n
                 THEN /\ XetBlock' = table
                      /\ s3' = upload_chunks(s3, chunks, n)
                      /\ XetFileLayout' = XetFileLayout \o layout_rows(table, f, chunks)
                      /\ redis' = mark_chunks(redis, chunks, n, down)
                      /\ resp' = Reply("chunk_lfs_file", file_record.sha256, 1, << >>, NoUrl)
                      /\ UNCHANGED <<disk, redis_enabled, File, XetShard, XetXorb, XetBlockPlacement,
                                     metrics, calls, acked, inflight>>
                 ELSE \* db.atomic() rolls the registry back; the bucket and Redis keep
                      \* what the finished steps wrote
                      /\ s3' = upload_chunks(s3, chunks, uploaded_before(fault))
                      /\ redis' = mark_chunks(redis, chunks, fault.at - 1, down)
                      /\ resp' = Reply("chunk_lfs_file", file_record.sha256, 0, << >>, NoUrl)
                      /\ UNCHANGED <<XetBlock, disk, redis_enabled, File, XetShard, XetFileLayout,
                                     XetXorb, XetBlockPlacement, metrics, calls, acked, inflight>>

----------------------------------------------------------------------------
(* api/xet/routers/cas.py: reconstruction *)

\* Maximum window of the fallback reconstruction: 64 MiB, in units of 2 MiB.
CHUNK_SIZE_BYTES == 32

\* hashlib.sha256(f"{file_id}-chunk{chunk_idx}".encode()).hexdigest(): the digest
\* of a text that is no block content.  Injective in (file_id, chunk_idx) (Cantor
\* pairing) and negative, hence apart from every digest of a byte string.
sha256_chunk_text(file_id, chunk_idx) ==
    0 - (1 + ((file_id + chunk_idx) * (file_id + chunk_idx + 1)) \div 2 + chunk_idx)

\* rows ordered by sequence_order (.order_by(XetFileLayout.sequence_order))
RECURSIVE insert_by_order(_, _)
insert_by_order(rows, r) ==
    IF rows = << >> THEN <<r>>
    ELSE IF r.sequence_order < Head(rows).sequence_order THEN <<r>> \o rows
    ELSE <<Head(rows)>> \o insert_by_order(Tail(rows), r)

RECURSIVE order_by_sequence(_)
order_by_sequence(rows) ==
    IF rows = << >> THEN << >>
    ELSE insert_by_order(order_by_sequence(SubSeq(rows, 1, Len(rows) - 1)), rows[Len(rows)])

\* XetFileLayout rows of file f, joined with XetBlock, ordered by sequence_order
file_layout(f) ==
    order_by_sequence(SelectSeq(XetFileLayout, LAMBDA r : r.file = f))

\* XetBlockPlacement.get_or_none(XetBlockPlacement.block == block): row id or 0
PlacementId(block) ==
    IF \E i \in 1..Len(XetBlockPlacement) : XetBlockPlacement[i].block = block
    THEN CHOOSE i \in 1..Len(XetBlockPlacement) :
            /\ XetBlockPlacement[i].block = block
            /\ \A j \in 1..(i - 1) : XetBlockPlacement[j].block # block
    ELSE 0

\* get_term_and_info with a URL of the whole xorb object for a placed block
get_term_and_info_whole_xorb(idx, item) ==
    LET block == XetBlock[item.block]
        p == PlacementId(item.block)
        url == IF p # 0
               THEN presigned_url(XetXorb[XetBlockPlacement[p].xorb].storage_key)
               ELSE presigned_url(get_xet_block_s3_key(block.hash))
    IN  [term |-> [hash |-> block.hash, unpacked_length |-> block.size,
                   range |-> [start |-> idx, end |-> idx + 1]],
         block_hash |-> block.hash,
         info |-> [range |-> [start |-> idx, end |-> idx + 1], url |-> url]]

\* get_term_and_info(idx, item): idx counts from 0
get_term_and_info(idx, item) ==
    LET block == XetBlock[item.block]
        p == PlacementId(item.block)
        url == IF p # 0
               THEN presigned_range_url(
                        XetXorb[XetBlockPlacement[p].xorb].storage_key,
                        XetBlockPlacement[p].offset,
                        XetBlockPlacement[p].offset + XetBlockPlacement[p].length - 1)
               ELSE presigned_url(get_xet_block_s3_key(block.hash))
    IN  [term |-> [hash |-> block.hash, unpacked_length |-> block.size,
                   range |-> [start |-> idx, end |-> idx + 1]],
         block_hash |-> block.hash,
         info |-> [range |-> [start |-> idx, end |-> idx + 1], url |-> url]]

\* terms.append(term) for the first j results
real_terms(layout) == [j \in 1..Len(layout) |-> get_term_and_info(j - 1, layout[j]).term]

\* fetch_info[block_hash] = [info] for the first j results, in order
RECURSIVE real_fetch_info(_, _)
real_fetch_info(layout, j) ==
    IF j = 0 THEN << >>
    ELSE LET r == get_term_and_info(j - 1, layout[j])
         IN  Put(real_fetch_info(layout, j - 1), r.block_hash, <<r.info>>)

_generate_real_reconstruction(layout) ==
    [offset_into_first_range |-> 0,
     terms |-> real_terms(layout),
     fetch_info |-> real_fetch_info(layout, Len(layout))]

\* num_chunks rounded the wrong way: one window too many for exact multiples
fallback_num_chunks_off_by_one(file_size) ==
    IF file_size = 0 THEN 1
    ELSE file_size \div CHUNK_SIZE_BYTES + 1

\* the (start, end) windows of the fallback: chunks.append((start, end)) for i in
\* range(num_chunks)
fallback_num_chunks(file_size) ==
    IF file_size = 0 THEN 1
    ELSE (file_size + CHUNK_SIZE_BYTES - 1) \div CHUNK_SIZE_BYTES

fallback_chunks(file_size) ==
    IF file_size = 0 THEN << <<0, 0>> >>
    ELSE [i \in 1..fallback_num_chunks(file_size) |->
             <<(i - 1) * CHUNK_SIZE_BYTES,
               Min((i - 1) * CHUNK_SIZE_BYTES + CHUNK_SIZE_BYTES, file_size)>>]

fallback_chunk_hash(file_id, num_chunks, chunk_idx) ==
    IF num_chunks = 1 THEN file_id ELSE sha256_chunk_text(file_id, chunk_idx)

fallback_term(file_id, num_chunks, chunk_idx, chunk) ==
    [hash |-> fallback_chunk_hash(file_id, num_chunks, chunk_idx),
     unpacked_length |-> chunk[2] - chunk[1],
     range |-> [start |-> chunk_idx, end |-> chunk_idx + 1]]

fallback_info(chunk_idx, chunk, url) ==
    [range |-> [start |-> chunk_idx, end |-> chunk_idx + 1],
     url |-> url,
     url_range |-> [start |-> chunk[1],
                    end |-> IF chunk[2] - chunk[1] > 0 THEN chunk[2] - 1 ELSE 0]]

RECURSIVE fallback_fetch_info(_, _, _, _)
fallback_fetch_info(file_id, chunks, url, j) ==
    IF j = 0 THEN << >>
    ELSE Put(fallback_fetch_info(file_id, chunks, url, j - 1),
             fallback_chunk_hash(file_id, Len(chunks), j - 1),
             <<fallback_info(j - 1, chunks[j], url)>>)

_generate_chunked_reconstruction(file_id, file_size, url) ==
    LET chunks == fallback_chunks(file_size)
    IN  [offset_into_first_range |-> 0,
         terms |-> [j \in 1..Len(chunks) |->
                       fallback_term(file_id, Len(chunks), j - 1, chunks[j])],
         fetch_info |-> fallback_fetch_info(file_id, chunks, url, Len(chunks))]

\* The document get_reconstruction answers for file f (found, readable).
reconstruction_of(f) ==
    LET layout == file_layout(f)
    IN  IF layout # << >>
        THEN _generate_real_reconstruction(layout)
        ELSE _generate_chunked_reconstruction(
                 File[f].sha256, File[f].size, presigned_url(lfs_key(File[f].sha256)))

get_reconstruction(f) ==
    /\ resp' = Reply("get_reconstruction", File[f].sha256, 200, reconstruction_of(f), NoUrl)
    /\ UNCHANGED <<s3, XetBlock, redis, disk, redis_enabled, File, XetShard, XetFileLayout,
                   XetXorb, XetBlockPlacement, metrics, calls, acked, inflight>>

----------------------------------------------------------------------------
(* api/xet/compactor.py *)

\* Target XORB size: 100 MiB, in units of 2 MiB.
TARGET_XORB_SIZE == 50

\* .limit(1000): the most blocks one sweep selects
SWEEP_LIMIT == 1000

get_xet_xorb_s3_key(xorb_id) == <<"cas/xorbs", xorb_id>>

\* XetBlockPlacement.select(XetBlockPlacement.block): the blocks that are placed
placed_blocks == {XetBlockPlacement[p].block : p \in 1..Len(XetBlockPlacement)}

\* the selection without the placement filter: every block of positive size
unplaced_blocks_unfiltered ==
    LET ids == SelectSeq([i \in 1..Len(XetBlock) |-> i],
                         LAMBDA i : XetBlock[i].size > 0)
    IN  SubSeq(ids, 1, Min(Len(ids), SWEEP_LIMIT))

\* XetBlock.select().where(size > 0).where(id not in placements).limit(1000): the
\* row ids selected, in id order (the query states no order; the tables answer in
\* primary-key order)
unplaced_blocks ==
    LET placed == placed_blocks
        ids == SelectSeq([i \in 1..Len(XetBlock) |-> i],
                         LAMBDA i : XetBlock[i].size > 0 /\ i \notin placed)
    IN  SubSeq(ids, 1, Min(Len(ids), SWEEP_LIMIT))

\* the blocks of a batch before the first one whose fetch fails: a loop that
\* ends at the failure
RECURSIVE fetched_blocks_until_failure(_, _, _)
fetched_blocks_until_failure(store, blocks, failing) ==
    IF blocks = << >> THEN << >>
    ELSE IF \/ Head(blocks) \in failing
            \/ get_xet_block_s3_key(XetBlock[Head(blocks)].hash) \notin DOMAIN store
    THEN << >>
    ELSE <<Head(blocks)>> \o fetched_blocks_until_failure(store, Tail(blocks), failing)

\* the blocks of a batch whose s3.get_object succeeds: `failing` are the blocks
\* whose fetch raises, and a block without an object cannot be fetched
fetched_blocks(store, blocks, failing) ==
    SelectSeq(blocks, LAMBDA b : /\ b \notin failing
                                 /\ get_xet_block_s3_key(XetBlock[b].hash) \in DOMAIN store)

\* batch_placements without "offset += block.size": every placement at `offset`
batch_placements_same_offset(fetched, offset, xorb) ==
    [i \in 1..Len(fetched) |->
        [block |-> fetched[i], xorb |-> xorb, offset |-> offset,
         length |-> XetBlock[fetched[i]].size]]

\* placements.append({block, offset, length}); offset += block.size, for the
\* blocks whose fetch succeeded, starting at `offset`
RECURSIVE batch_placements(_, _, _)
batch_placements(fetched, offset, xorb) ==
    IF fetched = << >> THEN << >>
    ELSE <<[block |-> Head(fetched), xorb |-> xorb, offset |-> offset,
            length |-> XetBlock[Head(fetched)].size]>>
             \o batch_placements(Tail(fetched), offset + XetBlock[Head(fetched)].size, xorb)

\* xorb_content.extend(data) for the blocks whose fetch succeeded
RECURSIVE batch_content(_, _)
batch_content(store, fetched) ==
    IF fetched = << >> THEN << >>
    ELSE store[get_xet_block_s3_key(XetBlock[Head(fetched)].hash)]
             \o batch_content(store, Tail(fetched))

\* _create_xorb_from_batch(blocks): what one call writes, given the id that
\* uuid.uuid4() draws.  made = FALSE is the "if not xorb_content: return".
_create_xorb_from_batch(store, blocks, failing, xorb_id) ==
    LET fetched == fetched_blocks(store, blocks, failing)
        xorb_content == batch_content(store, fetched)
        xorb_s3_key == get_xet_xorb_s3_key(xorb_id)
    IN  [made |-> xorb_content # << >>,
         key |-> xorb_s3_key,
         content |-> xorb_content,
         xorb |-> [xorb_id |-> xorb_id, storage_key |-> xorb_s3_key,
                   size |-> Len(xorb_content)],
         placements |-> batch_placements(fetched, 0, xorb_id)]

\* the end of the sweep without its flush: a batch below the target is dropped
flush_batch_dropped(current_batch) == << >>

\* if current_batch: await _create_xorb_from_batch(current_batch)
flush_batch(current_batch) ==
    IF current_batch # << >> THEN <<current_batch>> ELSE << >>

\* The loop of compact_blocks from the i-th selected block on: the batches it
\* hands to _create_xorb_from_batch, in order.
RECURSIVE sweep_batches(_, _, _, _)
sweep_batches(selected, i, current_batch, current_size) ==
    IF i > Len(selected) THEN flush_batch(current_batch)
    ELSE LET batch == Append(current_batch, selected[i])
             size == current_size + XetBlock[selected[i]].size
         IN  IF size >= TARGET_XORB_SIZE
             THEN <<batch>> \o sweep_batches(selected, i + 1, << >>, 0)
             ELSE sweep_batches(selected, i + 1, batch, size)

RECURSIVE concat_placements(_)
concat_placements(made) ==
    IF made = << >> THEN << >>
    ELSE Head(made).placements \o concat_placements(Tail(made))

\* What raises in a sweep apart from the block fetches: nothing, or, in the
\* at-th call of _create_xorb_from_batch, the upload of the xorb (s3.put_object)
\* or its transaction (XetXorb.create, XetBlockPlacement.create).  Either leaves
\* _create_xorb_from_batch and compact_blocks, which have no handler for it.
SweepFaults(n) ==
    {NoFault} \cup {[at |-> j, stage |-> st] : j \in 1..n, st \in {"upload", "db"}}

\* the xorb objects of the bucket
xorb_objects(store) == {key \in DOMAIN store : key[1] = "cas/xorbs"}

\* the xorb objects that no xorb row names
orphan_xorbs ==
    {key \in xorb_objects(s3) :
        \A x \in 1..Len(XetXorb) : XetXorb[x].storage_key # key}

\* The calls of _create_xorb_from_batch (numbers of batches, `seals` telling
\* which have content) that reach the end of their transaction when the stop-th
\* call raises at the stage fault.stage; this variant commits before it uploads.
committed_batches_commit_first(seals, stop, fault) ==
    SelectSeq([j \in 1..Len(seals) |-> j],
              LAMBDA j : seals[j] /\ (j < stop \/ (j = stop /\ fault.stage = "upload")))

\* with db.atomic(): ... is reached after s3.put_object returned, and commits
\* unless a create raises
committed_batches(seals, stop, fault) ==
    SelectSeq([j \in 1..Len(seals) |-> j], LAMBDA j : seals[j] /\ j < stop)

\* the calls whose s3.put_object returned
uploaded_batches(seals, stop, fault) ==
    SelectSeq([j \in 1..Len(seals) |-> j],
              LAMBDA j : seals[j] /\ (j < stop \/ (j = stop /\ fault.stage = "db")))

\* One sweep.  Block objects are only read and every xorb key is new, so each
\* call of _create_xorb_from_batch fetches from the store the sweep started with.
\* uuid.uuid4() is a fresh id: the number of the xorb row to come, and for a xorb
\* whose transaction fails a negative number no row will ever bear.  The answer
\* records, for the log, how many xorbs the sweep sealed, the blocks whose fetch
\* failed, and whether the sweep ended by an exception.
\* compact_blocks from line 36 on, over the blocks `selected` by its query
compact_selected(selected, failing, fault) ==
    \E batches \in {IF selected = << >> THEN << >>
                    ELSE sweep_batches(selected, 1, << >>, 0)} :
    \E seals \in {[j \in 1..Len(batches) |->
                     batch_content(s3, fetched_blocks(s3, batches[j], failing)) # << >>]} :
    \E stop \in {IF fault.stage # "none" /\ fault.at <= Len(batches) /\ seals[fault.at]
                 THEN fault.at ELSE Len(batches) + 1} :
    \E sealing \in {committed_batches(seals, stop, fault)} :
    \E made \in {[k \in 1..Len(sealing) |->
                    _create_xorb_from_batch(s3, batches[sealing[k]], failing,
                                            Len(XetXorb) + k)]} :
    \E stored \in {uploaded_batches(seals, stop, fault)} :
    \E uploaded \in {{made[k] : k \in {i \in 1..Len(made) :
                                         \E u \in 1..Len(stored) : stored[u] = sealing[i]}}
                     \cup {_create_xorb_from_batch(s3, batches[stored[u]], failing,
                                                   0 - (Cardinality(orphan_xorbs) + 1)) :
                             u \in {i \in 1..Len(stored) :
                                      \A k \in 1..Len(sealing) : sealing[k] # stored[i]}}} :
        /\ s3' = [key \in (DOMAIN s3) \cup {m.key : m \in uploaded} |->
                     IF key \in DOMAIN s3 THEN s3[key]
                     ELSE (CHOOSE m \in uploaded : m.key = key).content]
        /\ XetXorb' = XetXorb \o [k \in 1..Len(made) |-> made[k].xorb]
        /\ XetBlockPlacement' = XetBlockPlacement \o concat_placements(made)
        /\ resp' = Reply("compact_blocks", 0, Len(made),
                         [skipped |-> SelectSeq(selected,
                              LAMBDA b : /\ \E j \in 1..Len(batches) :
                                              /\ j <= stop
                                              /\ \E i \in 1..Len(batches[j]) :
                                                    batches[j][i] = b
                                         /\ fetched_blocks(s3, <<b>>, failing) = << >>),
                          raised |-> stop <= Len(batches)],
                         NoUrl)
        /\ UNCHANGED <<XetBlock, redis, disk, redis_enabled, File, XetShard, XetFileLayout,
                       metrics, calls, acked>>

\* compact_blocks(): the query of lines 24-27 and the sweep over its result
compact_blocks(failing, fault) ==
    /\ compact_selected(unplaced_blocks, failing, fault)
    /\ UNCHANGED inflight

----------------------------------------------------------------------------
(* api/xet/routers/shards.py *)

\* hashlib.sha256(shard_content).hexdigest(): the digest of a shard blob, kept as
\* the blob it was taken of (injective, and no blob is its own digest)
sha256_shard(content) == [sha256_of |-> content]

\* None where a shard id is answered: the digest of no blob (no field is negative)
NoShardId == [sha256_of |-> <<-1>>]

get_xet_shard_s3_key(shard_id) == <<"cas/shards", shard_id>>

\* XetShard.get_or_none(shard_id=shard_id): row number or 0
ShardRow(table, shard_id) ==
    IF \E i \in 1..Len(table) : table[i].shard_id = shard_id
    THEN CHOOSE i \in 1..Len(table) :
            /\ table[i].shard_id = shard_id
            /\ \A j \in 1..(i - 1) : table[j].shard_id # shard_id
    ELSE 0

\* XetShard.get_or_create(shard_id=..., defaults={storage_key, size})
shard_get_or_create(table, shard_id, storage_key, size) ==
    IF ShardRow(table, shard_id) # 0 THEN table
    ELSE Append(table, [shard_id |-> shard_id, storage_key |-> storage_key, size |-> size])

head_shard(shard_id) ==
    LET s3_key == get_xet_shard_s3_key(shard_id)
    IN  /\ IF ShardRow(XetShard, shard_id) # 0
           THEN /\ resp' = Reply("head_shard", shard_id, 200, << >>, NoUrl)
                /\ UNCHANGED XetShard
           ELSE IF object_exists(s3_key)
           THEN /\ XetShard' = shard_get_or_create(XetShard, shard_id, s3_key, 0)
                /\ resp' = Reply("head_shard", shard_id, 200, << >>, NoUrl)
           ELSE /\ resp' = Reply("head_shard", shard_id, 404, << >>, NoUrl)
                /\ UNCHANGED XetShard
        /\ UNCHANGED <<s3, XetBlock, redis, disk, redis_enabled, File, XetFileLayout,
                       XetXorb, XetBlockPlacement, metrics, calls, acked, inflight>>

get_shard(shard_id) ==
    LET shard == ShardRow(XetShard, shard_id)
        s3_key == get_xet_shard_s3_key(shard_id)
    IN  /\ IF shard = 0 /\ ~object_exists(s3_key)
           THEN resp' = Reply("get_shard", shard_id, 404, << >>, NoUrl)
           ELSE resp' = Reply("get_shard", shard_id, 307, << >>,
                              presigned_url(IF shard = 0 THEN s3_key
                                            ELSE XetShard[shard].storage_key))
        /\ UNCHANGED <<s3, XetBlock, redis, disk, redis_enabled, File, XetShard,
                       XetFileLayout, XetXorb, XetBlockPlacement, metrics, calls, acked, inflight>>

\* put_shard compares no digest: it writes the body under the id of the path.
\* fault: which remote write raises, if any ("none", "s3", "db")
put_shard(shard_id, content, fault) ==
    LET s3_key == get_xet_shard_s3_key(shard_id)
    IN  IF fault = "s3"
        THEN /\ resp' = Reply("put_shard", shard_id, 500, << >>, NoUrl)
             /\ UNCHANGED <<s3, XetShard>>
             /\ UNCHANGED <<XetBlock, redis, disk, redis_enabled, File, XetFileLayout,
                            XetXorb, XetBlockPlacement, metrics, calls, acked, inflight>>
        ELSE IF fault = "db"
        THEN /\ s3' = Put(s3, s3_key, content)
             /\ resp' = Reply("put_shard", shard_id, 500, << >>, NoUrl)
             /\ UNCHANGED XetShard
             /\ UNCHANGED <<XetBlock, redis, disk, redis_enabled, File, XetFileLayout,
                            XetXorb, XetBlockPlacement, metrics, calls, acked, inflight>>
        ELSE /\ s3' = Put(s3, s3_key, content)
             /\ XetShard' = shard_get_or_create(XetShard, shard_id, s3_key, Len(content))
             /\ resp' = Reply("put_shard", shard_id, 200, content, NoUrl)
             /\ UNCHANGED <<XetBlock, redis, disk, redis_enabled, File, XetFileLayout,
                            XetXorb, XetBlockPlacement, metrics, calls, acked, inflight>>

----------------------------------------------------------------------------
(* api/xet/shard_manager.py.  A shard blob is a sequence of fields: the three  *)
(* 4-byte fields of the header, then four fields per record.                   *)

\* b"XSHD" read as a big-endian number
XSHD == 1481852996

\* header_size = 12 bytes: three fields
SHARD_HEADER_SIZE == 3

\* 32 + 32 + 8 + 8 = 80 bytes: four fields
SHARD_ENTRY_SIZE == 4

\* "size < 1024 * 1024", scaled: a blob of two records is not small
SMALL_SHARD_SIZE == 8

\* the names bound in the module: its imports and its definitions
shard_manager_globals ==
    {"hashlib", "json", "struct", "XetBlock", "XetBlockPlacement", "XetShard", "db",
     "cfg", "get_logger", "get_s3_client", "logger", "get_xet_shard_s3_key",
     "generate_global_shard", "compact_shards"}

\* struct.pack(">4sII", b"XSHD", 1, n)
pack_header(n) == <<XSHD, 1, n>>

\* bytes.fromhex(p.block.hash): a block hash is a hex digest
fromhex_block_hash(block_hash) == [ok |-> TRUE, bytes |-> block_hash]

\* bytes.fromhex(p.xorb.xorb_id): str(uuid.uuid4()) holds hyphens, ValueError
fromhex_xorb_id(xorb_id) == [ok |-> FALSE, bytes |-> 0]

\* the entries of the placements from the j-th on: a placement whose conversion
\* raises is logged and skipped
RECURSIVE shard_entries(_, _)
shard_entries(placements, j) ==
    IF j > Len(placements) THEN << >>
    ELSE LET p == placements[j]
             block_hash_bytes == fromhex_block_hash(XetBlock[p.block].hash)
             xorb_id_bytes == fromhex_xorb_id(XetXorb[p.xorb].xorb_id)
         IN  (IF block_hash_bytes.ok /\ xorb_id_bytes.ok
              THEN <<block_hash_bytes.bytes, xorb_id_bytes.bytes, p.offset, p.length>>
              ELSE << >>)
                 \o shard_entries(placements, j + 1)

\* header + b"".join(entries): the header counts the placements, not the entries
global_shard_content(placements) ==
    pack_header(Len(placements)) \o shard_entries(placements, 1)

\* The answer: status 1 and the shard id when an id is returned, status 0 for
\* None, status -1 when the call raises.
\* fault: which remote write raises, if any ("none", "s3", "db")
generate_global_shard(fault) ==
    IF "XetXorb" \notin shard_manager_globals
    THEN \* line 27 names XetXorb: NameError, before anything is read
         /\ resp' = Reply("generate_global_shard", NoShardId, -1, << >>, NoUrl)
         /\ UNCHANGED <<s3, XetShard>>
         /\ UNCHANGED <<XetBlock, redis, disk, redis_enabled, File, XetFileLayout,
                        XetXorb, XetBlockPlacement, metrics, calls, acked, inflight>>
    ELSE IF Len(XetBlockPlacement) = 0
    THEN /\ resp' = Reply("generate_global_shard", NoShardId, 0, << >>, NoUrl)
         /\ UNCHANGED <<s3, XetShard>>
         /\ UNCHANGED <<XetBlock, redis, disk, redis_enabled, File, XetFileLayout,
                        XetXorb, XetBlockPlacement, metrics, calls, acked, inflight>>
    ELSE LET shard_content == global_shard_content(XetBlockPlacement)
             shard_id == sha256_shard(shard_content)
             s3_key == get_xet_shard_s3_key(shard_id)
         IN  /\ s3' = IF fault = "s3" THEN s3 ELSE Put(s3, s3_key, shard_content)
             /\ XetShard' = IF fault # "none" THEN XetShard
                            ELSE shard_get_or_create(XetShard, shard_id, s3_key,
                                                     Len(shard_content))
             /\ resp' = IF fault # "none"
                        THEN Reply("generate_global_shard", NoShardId, 0, << >>, NoUrl)
                        ELSE Reply("generate_global_shard", shard_id, 1, << >>, NoUrl)
             /\ UNCHANGED <<XetBlock, redis, disk, redis_enabled, File, XetFileLayout,
                            XetXorb, XetBlockPlacement, metrics, calls, acked, inflight>>

\* list(XetShard.select().where(XetShard.size < 1024 * 1024)): row numbers
small_shards ==
    SelectSeq([i \in 1..Len(XetShard) |-> i],
              LAMBDA i : XetShard[i].size < SMALL_SHARD_SIZE)

\* content[header_size:]
entries_content(content) ==
    IF Len(content) <= SHARD_HEADER_SIZE THEN << >>
    ELSE SubSeq(content, SHARD_HEADER_SIZE + 1, Len(content))

\* the shards of `small` whose s3.get_object succeeds: `failing` are the rows
\* whose read raises, and a row without an object cannot be read
readable_shards(small, failing) ==
    SelectSeq(small, LAMBDA i : i \notin failing /\ XetShard[i].storage_key \in DOMAIN s3)

\* all_entries: what the loop appends, in order
all_entries(small, failing) ==
    LET readable == readable_shards(small, failing)
    IN  [k \in 1..Len(readable) |-> entries_content(s3[XetShard[readable[k]].storage_key])]

\* entry_count = len(combined_entries_bytes) // 80; header + combined_entries_bytes
merged_shard_content(entries) ==
    LET combined_entries_bytes == ConcatAll(entries)
        entry_count == Len(combined_entries_bytes) \div SHARD_ENTRY_SIZE
    IN  pack_header(entry_count) \o combined_entries_bytes

\* What raises inside the try block of compact_shards: nothing, the upload of
\* the merged shard, the insert of its row, or the delete_instance of the
\* at-th source shard.
NoShardFault == [at |-> 0, stage |-> "none"]
ShardFaults(n) ==
    {NoShardFault, [at |-> 0, stage |-> "upload"], [at |-> 0, stage |-> "create"]}
        \cup {[at |-> k, stage |-> "delete_row"] : k \in 1..n}

\* the keys s3.delete_object has removed when the loop over `small` has made
\* `done` calls; `undeletable` are the rows whose delete_object raises
deleted_keys(small, done, undeletable) ==
    {XetShard[small[k]].storage_key : k \in {j \in 1..done : small[j] \notin undeletable}}

\* The answer: status 1 and the new shard id after a merge, status 0 when the
\* call returns without merging, status -1 when the merge fails and is logged.
compact_shards(failing, undeletable, fault) ==
    \E small \in {small_shards} :
    \E entries \in {all_entries(small, failing)} :
        IF Len(small) < 2 \/ entries = << >>
        THEN /\ resp' = Reply("compact_shards", NoShardId, 0, << >>, NoUrl)
             /\ UNCHANGED <<s3, XetShard>>
             /\ UNCHANGED <<XetBlock, redis, disk, redis_enabled, File, XetFileLayout,
                            XetXorb, XetBlockPlacement, metrics, calls, acked, inflight>>
        ELSE LET new_shard_content == merged_shard_content(entries)
                 new_shard_id == sha256_shard(new_shard_content)
                 s3_key == get_xet_shard_s3_key(new_shard_id)
                 uploaded == Put(s3, s3_key, new_shard_content)
             IN  /\ fault \in ShardFaults(Len(small))
                 /\ IF fault.stage = "upload"
                    THEN UNCHANGED <<s3, XetShard>>
                    ELSE IF fault.stage = "create"
                    THEN s3' = uploaded /\ UNCHANGED XetShard
                    ELSE IF fault.stage = "delete_row"
                    THEN \* the transaction is rolled back, the objects stay deleted
                         /\ s3' = Remove(uploaded, deleted_keys(small, fault.at, undeletable))
                         /\ UNCHANGED XetShard
                    ELSE \* every row of small_shards is deleted, read or not
                         /\ s3' = Remove(uploaded, deleted_keys(small, Len(small), undeletable))
                         /\ XetShard' =
                               SelectSeq(XetShard, LAMBDA r : r.size >= SMALL_SHARD_SIZE)
                                  \o <<[shard_id |-> new_shard_id, storage_key |-> s3_key,
                                        size |-> Len(new_shard_content)]>>
                 /\ resp' = IF fault.stage = "none"
                            THEN Reply("compact_shards", new_shard_id, 1, << >>, NoUrl)
                            ELSE Reply("compact_shards", NoShardId, -1, << >>, NoUrl)
                 /\ UNCHANGED <<XetBlock, redis, disk, redis_enabled, File, XetFileLayout,
                                XetXorb, XetBlockPlacement, metrics, calls, acked, inflight>>

----------------------------------------------------------------------------
(* api/xet/background_tasks.py *)

\* .limit(10) of the chunking sweep
FILES_PER_SWEEP == 10
\* loop_count % 10 == 0: the periodic jobs run every tenth iteration
JOB_PERIOD == 10

\* the selection without its first row
files_to_chunk_skip_first ==
    LET eligible == SelectSeq([f \in 1..Len(File) |-> f],
                              LAMBDA f : /\ File[f].lfs
                                         /\ ~File[f].is_deleted
                                         /\ ~already_chunked(f))
    IN  IF eligible = << >> THEN << >> ELSE Tail(eligible)

\* File.select().where(lfs == True).where(is_deleted == False)
\*     .where(~File.id.in_(XetFileLayout.select(XetFileLayout.file))).limit(10)
files_to_chunk ==
    LET eligible == SelectSeq([f \in 1..Len(File) |-> f],
                              LAMBDA f : /\ File[f].lfs
                                         /\ ~File[f].is_deleted
                                         /\ ~already_chunked(f))
    IN  SubSeq(eligible, 1, Min(Len(eligible), FILES_PER_SWEEP))

\* an exception that leaves the loop body without being caught: the coroutine ends
on_exception_reraise(w) == [w EXCEPT !.pc = "dead", !.todo = << >>, !.caught = @ \cup {w.pc}]

\* except Exception as e: logger.error(...); await asyncio.sleep(60).
\* caught remembers where exceptions were raised (not program state).
on_exception(w) ==
    [w EXCEPT !.pc = "error_sleep", !.todo = << >>, !.caught = @ \cup {w.pc}]

\* The query of the sweep is run (line 28); db_up = FALSE is the query raising.
worker_scan(db_up) ==
    /\ worker.pc = "scan"
    /\ worker' = IF db_up THEN [worker EXCEPT !.pc = "chunk", !.todo = files_to_chunk]
                 ELSE on_exception(worker)
    /\ UNCHANGED <<s3, XetBlock, redis, disk, redis_enabled, File, XetShard, XetFileLayout,
                   XetXorb, XetBlockPlacement, metrics, calls, acked, inflight, resp>>

\* await chunk_lfs_file(file_record) for the next selected file; db_up = FALSE is
\* the layout query of chunk_lfs_file (chunker.py:27, outside its try) raising
worker_chunk(db_up, down, fault) ==
    /\ worker.pc = "chunk"
    /\ worker.todo # << >>
    /\ IF db_up
       THEN /\ worker' = [worker EXCEPT !.todo = Tail(@)]
            /\ chunk_lfs_file(Head(worker.todo), down, fault)
       ELSE /\ worker' = on_exception(worker)
            /\ UNCHANGED <<s3, XetBlock, redis, disk, redis_enabled, File, XetShard,
                           XetFileLayout, XetXorb, XetBlockPlacement, metrics, calls,
                           acked, inflight, resp>>

\* loop_count += 1 after the last file, and the test of line 39.  Only
\* loop_count % 10 is ever read, so the counter is kept modulo JOB_PERIOD.
worker_count ==
    /\ worker.pc = "chunk"
    /\ worker.todo = << >>
    /\ worker' = [worker EXCEPT !.loop_count = (@ + 1) % JOB_PERIOD,
                                !.pc = IF (worker.loop_count + 1) % JOB_PERIOD = 0
                                       THEN "jobs" ELSE "sleep"]
    /\ UNCHANGED <<s3, XetBlock, redis, disk, redis_enabled, File, XetShard, XetFileLayout,
                   XetXorb, XetBlockPlacement, metrics, calls, acked, inflight, resp>>

\* generate_global_shard returning to line 41
global_shard_returns == FALSE

\* generate_global_shard has no handler around its query: the NameError of
\* shard_manager.py:27 leaves it
global_shard_raises == "XetXorb" \notin shard_manager_globals

\* await generate_global_shard() (line 40).  When it raises, the except clause is
\* next; it raises in every call (shard_manager.py:27), so compact_shards and
\* cleanup_cache (lines 41-42) are never reached from here.
worker_jobs(fault) ==
    /\ worker.pc = "jobs"
    /\ IF global_shard_raises
       THEN \* nothing was read or written, and the worker has no caller to answer
            /\ worker' = on_exception(worker)
            /\ UNCHANGED <<s3, XetBlock, redis, disk, redis_enabled, File, XetShard,
                           XetFileLayout, XetXorb, XetBlockPlacement, metrics, calls,
                           acked, inflight, resp>>
       ELSE /\ worker' = [worker EXCEPT !.pc = "compact_shards"]
            /\ generate_global_shard(fault)

\* await asyncio.sleep(60), at the end of the body or in the except clause; then
\* the next iteration of `while True`
worker_sleep ==
    /\ worker.pc \in {"sleep", "error_sleep"}
    /\ worker' = [worker EXCEPT !.pc = "scan"]
    /\ UNCHANGED <<s3, XetBlock, redis, disk, redis_enabled, File, XetShard, XetFileLayout,
                   XetXorb, XetBlockPlacement, metrics, calls, acked, inflight, resp>>

----------------------------------------------------------------------------
(* The block endpoints under every choice of failing cache tiers *)

Init ==
    /\ s3 = << >>
    /\ XetBlock = << >>
    /\ redis = [kv |-> << >>, blocks_all |-> {}, bloom |-> {}]
    /\ disk = << >>
    /\ redis_enabled \in BOOLEAN
    /\ metrics = [dedup_hits |-> 0, dedup_misses |-> 0,
                  total_bytes_saved |-> 0, total_bytes_uploaded |-> 0]
    /\ calls = 0
    /\ worker = WorkerIdle
    /\ acked = << >>
    /\ inflight = << >>
    /\ resp = NoResp
    /\ File = << >>
    /\ XetFileLayout = << >>
    /\ XetXorb = << >>
    /\ XetBlockPlacement = << >>
    /\ XetShard = << >>

\* The tiers an endpoint calls: a tier it never calls cannot fail under it.
HeadTiers == {"set", "bloom"}
GetTiers == {"hot", "disk"}

\* The failures that can show in a put_block request: none before the integrity
\* check has passed, and no cache call once a remote call has raised.
PutDowns(h, b, fault) ==
    IF sha256(b) = h /\ fault = "none" THEN SUBSET Tiers ELSE {{}}
PutFaultsOf(h, b) ==
    IF sha256(b) = h THEN PutFaults ELSE {"none"}

Next ==
    \/ \E h \in Hashes, down \in SUBSET HeadTiers :
          head_block(h, down) /\ UNCHANGED worker
    \/ \E h \in Hashes, down \in SUBSET GetTiers :
          get_block(h, down) /\ UNCHANGED worker
    \/ \E h \in Hashes, b \in Bodies :
          \E fault \in PutFaultsOf(h, b) :
             \E down \in PutDowns(h, b, fault) :
                put_block(h, b, down, fault) /\ UNCHANGED worker
    \/ \E h \in Hashes : redis_expire(h) /\ UNCHANGED worker

Spec == Init /\ [][Next]_vars

----------------------------------------------------------------------------
(* Chunking one file, existence checks of its blocks, and its reconstruction *)

InitChunk ==
    /\ \E content \in SeqsUpTo(MaxFileLen), lfs \in BOOLEAN :
          /\ File = <<[sha256 |-> sha256(content), size |-> Len(content), lfs |-> lfs]>>
          /\ s3 = Put(<< >>, lfs_key(sha256(content)), content)
    /\ XetBlock = << >>
    /\ redis = [kv |-> << >>, blocks_all |-> {}, bloom |-> {}]
    /\ disk = << >>
    /\ redis_enabled \in BOOLEAN
    /\ metrics = [dedup_hits |-> 0, dedup_misses |-> 0,
                  total_bytes_saved |-> 0, total_bytes_uploaded |-> 0]
    /\ calls = 0
    /\ worker = WorkerIdle
    /\ acked = << >>
    /\ inflight = << >>
    /\ resp = NoResp
    /\ XetFileLayout = << >>
    /\ XetXorb = << >>
    /\ XetBlockPlacement = << >>
    /\ XetShard = << >>

\* the raw bytes of file f and the digests of its windows
raw_content(f) == s3[lfs_key(File[f].sha256)]
ChunkHashes(f) ==
    {sha256(split_chunks(raw_content(f))[j]) : j \in 1..Len(split_chunks(raw_content(f)))}

\* In this specification the cache service is up, or disabled (redis_enabled),
\* for the whole run: no single call fails.
ChunkDowns == {{}}

NextChunk ==
    \/ \E down \in ChunkDowns :
          \E fault \in ChunkFaults(Len(split_chunks(raw_content(1)))) :
             chunk_lfs_file(1, down, fault) /\ UNCHANGED worker
    \/ \E h \in ChunkHashes(1), down \in ChunkDowns :
          head_block(h, down) /\ UNCHANGED worker
    \/ get_reconstruction(1) /\ UNCHANGED worker

SpecChunk == InitChunk /\ [][NextChunk]_vars

----------------------------------------------------------------------------
(* Reconstruction of an unchunked file.  The file row belongs to the          *)
(* versioning subsystem; the fallback reads its sha256 and size only, so the  *)
(* bytes behind it are not represented here.                                  *)

InitFallback ==
    /\ \E file_id \in Hashes, file_size \in 0..MaxFileSize :
          File = <<[sha256 |-> file_id, size |-> file_size, lfs |-> FALSE]>>
    /\ s3 = << >>
    /\ XetBlock = << >>
    /\ redis = [kv |-> << >>, blocks_all |-> {}, bloom |-> {}]
    /\ disk = << >>
    /\ redis_enabled \in BOOLEAN
    /\ metrics = [dedup_hits |-> 0, dedup_misses |-> 0,
                  total_bytes_saved |-> 0, total_bytes_uploaded |-> 0]
    /\ calls = 0
    /\ worker = WorkerIdle
    /\ acked = << >>
    /\ inflight = << >>
    /\ resp = NoResp
    /\ XetFileLayout = << >>
    /\ XetXorb = << >>
    /\ XetBlockPlacement = << >>
    /\ XetShard = << >>

NextFallback == get_reconstruction(1) /\ UNCHANGED worker

SpecFallback == InitFallback /\ [][NextFallback]_vars

----------------------------------------------------------------------------
(* Compaction sweeps over a registry of blocks put by clients *)

\* The i-th content of `size` symbols: i written in base Cardinality(Symbols).
RECURSIVE block_content(_, _)
block_content(i, size) ==
    IF size = 0 THEN << >>
    ELSE <<i % Cardinality(Symbols)>> \o block_content(i \div Cardinality(Symbols), size - 1)

\* sizes of the registered blocks, in units
BlockSizes == {1, 2, 10}

\* The file is chunked while the registry has at most this many rows.
MaxChunkRegistry == 3

\* the LFS file that is still to be chunked: 6 MiB, windows of 4 MiB and 2 MiB
CompactFile == <<0, 1, 1>>

InitCompact ==
    /\ \E n \in 0..MaxBlocks, size \in BlockSizes :
          /\ XetBlock = [i \in 1..n |->
                            [hash |-> sha256(block_content(i - 1, size)), size |-> size]]
          /\ s3 = Put([key \in {get_xet_block_s3_key(sha256(block_content(i - 1, size))) :
                                    i \in 1..n} |->
                          CHOOSE c \in {block_content(i - 1, size) : i \in 1..n} :
                              get_xet_block_s3_key(sha256(c)) = key],
                      lfs_key(sha256(CompactFile)), CompactFile)
    /\ redis = [kv |-> << >>, blocks_all |-> {}, bloom |-> {}]
    /\ disk = << >>
    /\ redis_enabled = FALSE
    /\ metrics = [dedup_hits |-> 0, dedup_misses |-> 0,
                  total_bytes_saved |-> 0, total_bytes_uploaded |-> 0]
    /\ calls = 0
    /\ worker = WorkerIdle
    /\ acked = << >>
    /\ inflight = << >>
    /\ resp = NoResp
    /\ File = <<[sha256 |-> sha256(CompactFile), size |-> Len(CompactFile), lfs |-> TRUE]>>
    /\ XetFileLayout = << >>
    /\ XetXorb = << >>
    /\ XetBlockPlacement = << >>
    /\ XetShard = << >>

\* the blocks whose object fetch may fail: the first MaxFlaky rows of the registry
FlakyBlocks == {b \in 1..Len(XetBlock) : b <= MaxFlaky}

NextCompact ==
    \/ \E failing \in SUBSET FlakyBlocks : compact_blocks(failing, NoFault) /\ UNCHANGED worker
    \/ \E b \in Bodies : put_block(sha256(b), b, {}, "none") /\ UNCHANGED worker
    \/ /\ Len(XetBlock) <= MaxChunkRegistry
       /\ chunk_lfs_file(1, {}, NoFault)
       /\ UNCHANGED worker

SpecCompact == InitCompact /\ [][NextCompact]_vars

----------------------------------------------------------------------------
(* Sweeps that may fail, between the chunking of a file and its reconstructions *)

\* registered blocks before the file is chunked, and their size in units
MaxSweepBlocks == 10
SweepBlockSize == 10

\* the most xorb objects without a row
MaxOrphans == 1

InitSweep ==
    /\ \E n \in {0, MaxSweepBlocks} :
          /\ XetBlock = [i \in 1..n |->
                            [hash |-> sha256(block_content(i - 1, SweepBlockSize)),
                             size |-> SweepBlockSize]]
          /\ s3 = Put([key \in {get_xet_block_s3_key(
                                    sha256(block_content(i - 1, SweepBlockSize))) :
                                    i \in 1..n} |->
                          CHOOSE c \in {block_content(i - 1, SweepBlockSize) : i \in 1..n} :
                              get_xet_block_s3_key(sha256(c)) = key],
                      lfs_key(sha256(CompactFile)), CompactFile)
    /\ redis = [kv |-> << >>, blocks_all |-> {}, bloom |-> {}]
    /\ disk = << >>
    /\ redis_enabled = FALSE
    /\ metrics = [dedup_hits |-> 0, dedup_misses |-> 0,
                  total_bytes_saved |-> 0, total_bytes_uploaded |-> 0]
    /\ calls = 0
    /\ worker = WorkerIdle
    /\ acked = << >>
    /\ inflight = << >>
    /\ resp = NoResp
    /\ File = <<[sha256 |-> sha256(CompactFile), size |-> Len(CompactFile), lfs |-> TRUE]>>
    /\ XetFileLayout = << >>
    /\ XetXorb = << >>
    /\ XetBlockPlacement = << >>
    /\ XetShard = << >>

\* the blocks whose object fetch may fail in a sweep: one of the first MaxFlaky
\* rows of the registry or one block of the file
SweepFailing ==
    {{}} \cup {{b} : b \in FlakyBlocks
                          \cup {XetFileLayout[r].block : r \in 1..Len(XetFileLayout)}}

\* how many times the sweep to come calls _create_xorb_from_batch
sweep_calls ==
    IF unplaced_blocks = << >> THEN 0
    ELSE Len(sweep_batches(unplaced_blocks, 1, << >>, 0))

NextSweep ==
    \/ \E failing \in SweepFailing, fault \in SweepFaults(sweep_calls) :
          /\ fault.stage = "db" => Cardinality(orphan_xorbs) < MaxOrphans
          /\ compact_blocks(failing, fault)
          /\ UNCHANGED worker
    \/ chunk_lfs_file(1, {}, NoFault) /\ UNCHANGED worker
    \/ get_reconstruction(1) /\ UNCHANGED worker

SpecSweep == InitSweep /\ [][NextSweep]_vars

----------------------------------------------------------------------------
(* The metrics singleton alone *)

InitMetrics ==
    /\ s3 = << >>
    /\ XetBlock = << >>
    /\ redis = [kv |-> << >>, blocks_all |-> {}, bloom |-> {}]
    /\ disk = << >>
    /\ redis_enabled = FALSE
    /\ metrics = [dedup_hits |-> 0, dedup_misses |-> 0,
                  total_bytes_saved |-> 0, total_bytes_uploaded |-> 0]
    /\ calls = 0
    /\ worker = WorkerIdle
    /\ acked = << >>
    /\ inflight = << >>
    /\ resp = NoResp
    /\ File = << >>
    /\ XetFileLayout = << >>
    /\ XetXorb = << >>
    /\ XetBlockPlacement = << >>
    /\ XetShard = << >>

\* the sizes the endpoints hand to record_dedup: the size of a row registered by
\* an existence check (0) and the length of a block (2 units)
DedupSizes == {0, 2}

NextMetrics ==
    \/ \E hit \in BOOLEAN, size \in DedupSizes :
          record_dedup_call(hit, size) /\ UNCHANGED worker
    \/ get_dedup_ratio /\ UNCHANGED worker

SpecMetrics == InitMetrics /\ [][NextMetrics]_vars

----------------------------------------------------------------------------
(* The background worker over three files *)

\* the contents of the LFS objects: 6 MiB, 4 MiB and 6 MiB; the last window of
\* the first file and of the third are the same block
WorkerFiles == <<<<0, 1, 1>>, <<1, 1>>, <<1, 0, 1>>>>

\* Three LFS files; the second is deleted.  The cache service is up.
InitWorker ==
    /\ File = [f \in 1..Len(WorkerFiles) |->
                  [sha256 |-> sha256(WorkerFiles[f]), size |-> Len(WorkerFiles[f]),
                   lfs |-> TRUE, is_deleted |-> f = 2]]
    /\ s3 = [key \in {lfs_key(sha256(WorkerFiles[f])) : f \in 1..Len(WorkerFiles)} |->
                CHOOSE c \in {WorkerFiles[f] : f \in 1..Len(WorkerFiles)} :
                    lfs_key(sha256(c)) = key]
    /\ XetBlock = << >>
    /\ redis = [kv |-> << >>, blocks_all |-> {}, bloom |-> {}]
    /\ disk = << >>
    /\ redis_enabled = TRUE
    /\ metrics = [dedup_hits |-> 0, dedup_misses |-> 0,
                  total_bytes_saved |-> 0, total_bytes_uploaded |-> 0]
    /\ calls = 0
    /\ worker = WorkerIdle
    /\ acked = << >>
    /\ inflight = << >>
    /\ resp = NoResp
    /\ XetFileLayout = << >>
    /\ XetXorb = << >>
    /\ XetBlockPlacement = << >>
    /\ XetShard = << >>

\* the cache calls of one chunking either all succeed or all raise
WorkerDowns == {{}, {"set", "bloom"}}

NextWorker ==
    \/ \E db_up \in BOOLEAN : worker_scan(db_up)
    \/ /\ worker.todo # << >>
       /\ \E db_up \in BOOLEAN, down \in WorkerDowns :
             \E fault \in ChunkFaults(Len(split_chunks(raw_content(Head(worker.todo))))) :
                worker_chunk(db_up, down, fault)
    \/ worker_count
    \/ worker_jobs("none")
    \/ worker_sleep

SpecWorker == InitWorker /\ [][NextWorker]_vars

\* The event loop keeps running the worker: every await of it returns or raises.
\* Every step of the worker moves its position, hence the subscript.
SpecWorkerLive == SpecWorker /\ WF_worker(NextWorker)

----------------------------------------------------------------------------
(* The shard endpoints and the shard manager, over a small block registry *)

\* The blobs clients put: a well-formed shard of one record, and a body whose
\* record region is cut short.
ShardBodies ==
    {pack_header(1) \o <<1, 1, 0, 2>>,
     pack_header(1) \o <<2, 1>>}

ShardIds == {sha256_shard(b) : b \in ShardBodies}

\* what clients put: each body under its own digest, the well-formed body also
\* under the digest of the cut one, and the cut body with a failing registry write
PutShardInputs ==
    {<<sha256_shard(b), b, "none">> : b \in ShardBodies}
        \cup {<<sha256_shard(pack_header(1) \o <<2, 1>>), pack_header(1) \o <<1, 1, 0, 2>>, "none">>,
              <<sha256_shard(pack_header(1) \o <<2, 1>>), pack_header(1) \o <<2, 1>>, "db">>}

\* The block registry after n blocks of 4 MiB were put and one sweep sealed them
\* into a xorb; no shard yet.
InitShard ==
    /\ \E n \in 0..MaxShardBlocks :
          LET blocks == [i \in 1..n |-> block_content(i - 1, 2)]
              store == [key \in {get_xet_block_s3_key(sha256(blocks[i])) : i \in 1..n} |->
                           CHOOSE c \in {blocks[i] : i \in 1..n} :
                               get_xet_block_s3_key(sha256(c)) = key]
          IN  /\ XetBlock = [i \in 1..n |-> [hash |-> sha256(blocks[i]), size |-> 2]]
              /\ \E made \in {_create_xorb_from_batch(store, [i \in 1..n |-> i], {}, 1)} :
                    IF made.made
                    THEN /\ s3 = Put(store, made.key, made.content)
                         /\ XetXorb = <<made.xorb>>
                         /\ XetBlockPlacement = made.placements
                    ELSE /\ s3 = store
                         /\ XetXorb = << >>
                         /\ XetBlockPlacement = << >>
    /\ redis = [kv |-> << >>, blocks_all |-> {}, bloom |-> {}]
    /\ disk = << >>
    /\ redis_enabled = FALSE
    /\ metrics = [dedup_hits |-> 0, dedup_misses |-> 0,
                  total_bytes_saved |-> 0, total_bytes_uploaded |-> 0]
    /\ calls = 0
    /\ worker = WorkerIdle
    /\ acked = << >>
    /\ inflight = << >>
    /\ resp = Reply("none", NoShardId, 0, << >>, NoUrl)
    /\ File = << >>
    /\ XetFileLayout = << >>
    /\ XetShard = << >>

\* the rows of small_shards whose object read, or delete, may raise: the first
FlakyShards == {{}} \cup {{small_shards[k]} : k \in {j \in 1..Len(small_shards) : j = 1}}

NextShard ==
    \/ \E shard_id \in ShardIds : head_shard(shard_id) /\ UNCHANGED worker
    \/ \E shard_id \in ShardIds : get_shard(shard_id) /\ UNCHANGED worker
    \/ \E in \in PutShardInputs :
          /\ Len(XetShard) < MaxShardRows
          /\ put_shard(in[1], in[2], in[3])
          /\ UNCHANGED worker
    \/ \E fault \in {"none", "s3", "db"} :
          generate_global_shard(fault) /\ UNCHANGED worker
    \/ /\ Len(small_shards) >= 1
       /\ Len(XetShard) < MaxShardRows + 1
       /\ \E failing \in FlakyShards, undeletable \in FlakyShards,
             fault \in ShardFaults(Len(small_shards)) :
             /\ failing = {} \/ undeletable = {}
             /\ fault = NoShardFault \/ (failing = {} /\ undeletable = {})
             /\ compact_shards(failing, undeletable, fault)
             /\ UNCHANGED worker
    \/ /\ small_shards = << >>
       /\ compact_shards({}, {}, NoShardFault)
       /\ UNCHANGED worker

SpecShard == InitShard /\ [][NextShard]_vars

----------------------------------------------------------------------------
(* Properties of the block endpoints *)

\* C2: once put_block(x) has answered 200, every head_block of hash(x) answers
\* 200 and every get_block of it yields x's bytes, directly or through a redirect
\* to the origin object holding exactly those bytes, never 404, whichever cache
\* tiers are disabled or failing.
C2_PutThenHeadGet ==
    \A h \in DOMAIN acked :
        \A down \in SUBSET Tiers :
            /\ head_block_status(h, down) = 200
            /\ LET r == get_block_result(h, down)
                   s3_key == get_xet_block_s3_key(h)
               IN  \/ r.status = 200 /\ r.body = acked[h]
                   \/ /\ r.status = 307
                      /\ r.location = presigned_url(s3_key)
                      /\ object_exists(s3_key)
                      /\ s3[s3_key] = acked[h]

\* A block was put, its disk-cache write failed, and a later get_block of it was
\* answered with a redirect to the origin.
C2_Witness ==
    /\ resp.op = "get_block"
    /\ resp.hash \in DOMAIN acked
    /\ resp.status = 307
    /\ resp.hash \notin DOMAIN disk

\* C3: put_block(hash, body) with digest(body) # hash answers 400 and changes no
\* state: origin, registry, disk cache, hot cache, membership set, bloom filter
\* and metrics all stay as they were.
C3_MismatchRejected ==
    [][\A h \in Hashes, b \in Bodies :
          (sha256(b) # h /\ put_block(h, b, {}, "none"))
              => /\ resp'.status = 400
                 /\ UNCHANGED <<s3, XetBlock, redis, disk, metrics, calls, acked, inflight, fileVars>>]_vars

\* A mismatching put was rejected in a state that already holds a block.
C3_Witness ==
    /\ resp.op = "put_block"
    /\ resp.status = 400
    /\ Len(XetBlock) > 0

\* Presence of a block in a tier that stores it exactly.
PresentInSomeTier(h) ==
    \/ h \in redis.blocks_all
    \/ BlockId(XetBlock, h) # 0
    \/ object_exists(get_xet_block_s3_key(h))

\* C4: head_block(h) answers 200 if h is in the exact membership set, the
\* registry or the origin, and 404 otherwise: a block never stored is never
\* reported as existing.
C4_HeadExact ==
    \A h \in Hashes :
        \A down \in SUBSET Tiers :
            (head_block_status(h, down) = 200) <=> PresentInSomeTier(h)

\* C5: get_block(h) answers 200 with the block's bytes when a cache lookup (hot
\* cache or disk cache) finds h, a 307 redirect to the presigned origin URL when
\* neither finds it and the origin holds the object, and 404 exactly when h is in
\* neither cache and not in the origin.
C5_GetByTier ==
    \A h \in Hashes :
        \A down \in SUBSET Tiers :
            LET r == get_block_result(h, down)
                hot == get_cached_block(redis, h, down)
                dsk == get_from_cache(disk, h, down)
                s3_key == get_xet_block_s3_key(h)
            IN  /\ hot.found => (r.status = 200 /\ r.body = hot.content)
                /\ (~hot.found /\ dsk.found) => (r.status = 200 /\ r.body = dsk.content)
                /\ (~hot.found /\ ~dsk.found /\ object_exists(s3_key))
                      => (r.status = 307 /\ r.location = presigned_url(s3_key))
                /\ (r.status = 404) <=> (~hot.found /\ ~dsk.found /\ ~object_exists(s3_key))

----------------------------------------------------------------------------
(* Properties of the chunker and of the reconstruction *)


\* the bytes of the standalone object of the block a term names
term_content(term) == s3[get_xet_block_s3_key(term.hash)]

\* C1: once chunk_lfs_file has succeeded on a file of bytes b, the layout-based
\* reconstruction lists terms whose blocks' contents, concatenated in term order,
\* equal b, and whose unpacked_length values sum to len(b).
C1_ChunkRoundTrip ==
    already_chunked(1) =>
        LET doc == _generate_real_reconstruction(file_layout(1))
            b == raw_content(1)
        IN  /\ ConcatAll([i \in 1..Len(doc.terms) |-> term_content(doc.terms[i])]) = b
            /\ SumAll([i \in 1..Len(doc.terms) |-> doc.terms[i].unpacked_length]) = Len(b)

\* C6: in every reconstruction document (layout path and fallback path) term i
\* carries the index range [i, i+1), and its hash is a key of fetch_info whose
\* descriptor list holds a descriptor with that same range, also when a digest
\* occurs at more than one position of the layout.
C6_TermsHaveDescriptors ==
    LET doc == reconstruction_of(1)
    IN  \A i \in 1..Len(doc.terms) :
            /\ doc.terms[i].range = [start |-> i - 1, end |-> i]
            /\ doc.terms[i].hash \in DOMAIN doc.fetch_info
            /\ \E d \in 1..Len(doc.fetch_info[doc.terms[i].hash]) :
                  doc.fetch_info[doc.terms[i].hash][d].range = doc.terms[i].range

\* C8: chunking a file of n > 0 bytes with window W creates exactly
\* k = ceil(n / W) FileLayout rows with sequence_order 0..k-1, and the block at
\* position i has size W for i < k-1 and n - (k-1) * W for the last.
C8_LayoutShape ==
    already_chunked(1) =>
        LET n == Len(raw_content(1))
            k == (n + CHUNK_TARGET_SIZE - 1) \div CHUNK_TARGET_SIZE
            layout == file_layout(1)
        IN  /\ Len(layout) = k
            /\ \A i \in 1..Len(layout) :
                  /\ layout[i].sequence_order = i - 1
                  /\ XetBlock[layout[i].block].size =
                        (IF i < k THEN CHUNK_TARGET_SIZE ELSE n - (k - 1) * CHUNK_TARGET_SIZE)

\* C7: for an unchunked file of size S > 0 the fallback emits ceil(S / W) terms
\* and as many fetch_info entries; window i covers the bytes
\* [i*W, min((i+1)*W, S)) with url_range {i*W, min((i+1)*W, S) - 1}; windows are
\* at most W long and their lengths sum to S (150 MiB: 64, 64, 22 MiB); the key
\* is the file's digest for a single window and a digest derived per index
\* otherwise.
C7_FallbackWindows ==
    (resp.op = "get_reconstruction" /\ File[1].size > 0) =>
        LET doc == resp.body
            S == File[1].size
            W == CHUNK_SIZE_BYTES
            k == (S + W - 1) \div W
        IN  /\ Len(doc.terms) = k
            /\ Cardinality(DOMAIN doc.fetch_info) = k
            /\ \A i \in 1..Len(doc.terms) :
                  LET t == doc.terms[i]
                      last == Min(i * W, S)
                  IN  /\ t.unpacked_length = last - (i - 1) * W
                      /\ t.unpacked_length <= W
                      /\ t.range = [start |-> i - 1, end |-> i]
                      /\ t.hash \in DOMAIN doc.fetch_info
                      /\ Len(doc.fetch_info[t.hash]) = 1
                      /\ doc.fetch_info[t.hash][1].range = t.range
                      /\ doc.fetch_info[t.hash][1].url_range =
                            [start |-> (i - 1) * W, end |-> last - 1]
                      /\ (k = 1) => (t.hash = File[1].sha256)
                      /\ (k > 1) => /\ t.hash # File[1].sha256
                                    /\ \A j \in 1..Len(doc.terms) :
                                          j # i => doc.terms[j].hash # t.hash
            /\ SumAll([i \in 1..Len(doc.terms) |-> doc.terms[i].unpacked_length]) = S
            /\ (S = 75) =>
                  [i \in 1..Len(doc.terms) |-> doc.terms[i].unpacked_length] = <<32, 32, 11>>

\* The reconstruction of an unchunked file of 150 MiB was answered with 3 terms.
C7_Witness ==
    /\ resp.op = "get_reconstruction"
    /\ File[1].size = 75
    /\ Len(resp.body.terms) = 3

----------------------------------------------------------------------------
(* Properties of the compactor *)

\* the rows of the registry that no placement names
Unplaced == (1..Len(XetBlock)) \ placed_blocks

\* the placements that name xorb x
PlacementsOf(table, x) == SelectSeq(table, LAMBDA r : r.xorb = x)

\* C9: a compact_blocks sweep run in a state where no block is unplaced seals no
\* xorb, writes no placement and no object, and leaves the xorb rows, the
\* placements and the registry as they were, whichever fetches would fail.
C9_CompactIdempotent ==
    [][(/\ Unplaced = {}
        /\ \E failing \in SUBSET FlakyBlocks : compact_blocks(failing, NoFault))
       => /\ UNCHANGED <<s3, XetBlock, XetXorb, XetBlockPlacement>>
          /\ resp'.status = 0]_vars

\* A sweep that sealed nothing has just run over a registry whose blocks are all
\* placed in earlier xorbs.
C9_Witness ==
    /\ resp.op = "compact_blocks"
    /\ resp.status = 0
    /\ Len(XetBlock) > 0
    /\ Unplaced = {}
    /\ Len(XetXorb) > 0

\* 30 unplaced blocks of 4 MiB each, and no other unplaced block
ThirtyUnplaced ==
    /\ Cardinality(Unplaced) = 30
    /\ \A i \in Unplaced : /\ XetBlock[i].size = 2
                           /\ object_exists(get_xet_block_s3_key(XetBlock[i].hash))

\* C10, as stated: given 30 unplaced blocks of 4 MiB each and the 100 MiB target,
\* one sweep whose fetches all succeed seals exactly one xorb, of 25 blocks and
\* 100 MiB, and leaves 5 blocks unplaced.
C10_OneXorbFiveLeft ==
    [][(ThirtyUnplaced /\ compact_blocks({}, NoFault))
       => /\ Len(XetXorb') = Len(XetXorb) + 1
          /\ XetXorb'[Len(XetXorb')].size = 50
          /\ Len(PlacementsOf(XetBlockPlacement', XetXorb'[Len(XetXorb')].xorb_id)) = 25
          /\ Cardinality(Unplaced') = 5]_vars

\* C10, amended: given 30 unplaced blocks of 4 MiB each and the 100 MiB target,
\* one sweep whose fetches all succeed seals two xorbs, the first of the first 25
\* blocks (100 MiB) and the second of the remaining 5 blocks (20 MiB), and leaves
\* no block unplaced.
C10_TwoXorbs ==
    [][(ThirtyUnplaced /\ compact_blocks({}, NoFault))
       => LET k == Len(XetXorb)
              sel == unplaced_blocks
              first == PlacementsOf(XetBlockPlacement', XetXorb'[k + 1].xorb_id)
              second == PlacementsOf(XetBlockPlacement', XetXorb'[k + 2].xorb_id)
          IN  /\ Len(XetXorb') = k + 2
              /\ resp'.status = 2
              /\ XetXorb'[k + 1].size = 50
              /\ XetXorb'[k + 2].size = 10
              /\ [i \in 1..Len(first) |-> first[i].block] = SubSeq(sel, 1, 25)
              /\ [i \in 1..Len(second) |-> second[i].block] = SubSeq(sel, 26, 30)
              /\ Len(XetBlockPlacement') = Len(XetBlockPlacement) + 30
              /\ Unplaced' = {}]_vars

\* A sweep has just sealed two xorbs, of 100 MiB and 20 MiB, over a registry of
\* 30 blocks of 4 MiB, and every block is placed.
C10_Witness ==
    /\ resp.op = "compact_blocks"
    /\ resp.status = 2
    /\ Len(XetBlock) = 30
    /\ \A i \in 1..30 : XetBlock[i].size = 2
    /\ Len(XetXorb) = 2
    /\ XetXorb[1].size = 50
    /\ XetXorb[2].size = 10
    /\ Len(XetBlockPlacement) = 30

\* the set of the blocks a sweep would select now
SelectedBlocks == {unplaced_blocks[i] : i \in 1..Len(unplaced_blocks)}

\* C11: after a sweep in which every block fetch succeeds, every block the sweep
\* selected has a placement, also the blocks of a last batch that stayed below
\* the target size: that batch is sealed into a xorb of its own.
C11_LeftoverSealed ==
    [][compact_blocks({}, NoFault)
       => /\ SelectedBlocks \subseteq placed_blocks'
          /\ (SelectedBlocks # {}) => resp'.status >= 1]_vars

\* A sweep has just sealed one xorb smaller than the target, and no block of
\* positive size is left without a placement.
C11_Witness ==
    /\ resp.op = "compact_blocks"
    /\ resp.status = 1
    /\ Len(XetXorb) = 1
    /\ XetXorb[1].size < TARGET_XORB_SIZE
    /\ Len(XetBlockPlacement) > 1
    /\ SelectedBlocks = {}

\* C18: with sweeps that never overlap, in every reachable state each block has
\* at most one placement, whatever puts, chunkings, sweeps and fetch failures
\* came before.
C18_OnePlacementPerBlock ==
    \A i, j \in 1..Len(XetBlockPlacement) :
        XetBlockPlacement[i].block = XetBlockPlacement[j].block => i = j

\* The first block is placed in a later xorb than the second block (its fetch
\* failed in the sweep that placed the second), blocks registered by a put and
\* by the chunking of the file are placed too, and the last sweep sealed nothing.
C18_Witness ==
    /\ resp.op = "compact_blocks"
    /\ resp.status = 0
    /\ XetFileLayout # << >>
    /\ acked # << >>
    /\ Unplaced = {}
    /\ \E i, j \in 1..Len(XetBlockPlacement) :
          /\ XetBlockPlacement[i].block = 1
          /\ XetBlockPlacement[j].block = 2
          /\ XetBlockPlacement[i].xorb > XetBlockPlacement[j].xorb

\* the row of the xorb table with xorb_id x
XorbRow(table, x) == CHOOSE r \in {table[k] : k \in 1..Len(table)} : r.xorb_id = x

\* the placements of xorb x tile [0, size): the first at offset 0, each next one
\* where the previous one ends, the lengths adding up to the recorded size, and
\* the stored object is as long as the recorded size
XorbTiled(x) ==
    LET ps == PlacementsOf(XetBlockPlacement, x)
        row == XorbRow(XetXorb, x)
    IN  /\ ps # << >>
        /\ ps[1].offset = 0
        /\ \A i \in 1..(Len(ps) - 1) : ps[i + 1].offset = ps[i].offset + ps[i].length
        /\ \A i \in 1..Len(ps) : /\ ps[i].length > 0
                                 /\ ps[i].offset + ps[i].length <= row.size
        /\ \A i, j \in 1..Len(ps) :
              i < j => ps[i].offset + ps[i].length <= ps[j].offset
        /\ row.size = SumAll([i \in 1..Len(ps) |-> ps[i].length])
        /\ object_exists(row.storage_key)
        /\ Len(s3[row.storage_key]) = row.size
        /\ \A i \in 1..Len(ps) :
              SubSeq(s3[row.storage_key], ps[i].offset + 1, ps[i].offset + ps[i].length)
                  = s3[get_xet_block_s3_key(XetBlock[ps[i].block].hash)]

\* every xorb row is tiled by its placements
XorbsTiled == \A k \in 1..Len(XetXorb) : XorbTiled(XetXorb[k].xorb_id)

\* C19: every sealed xorb records the sum of its placements' lengths as its
\* size, and its placements tile [0, size) in selection order with cumulative
\* offsets, also when blocks of its batch failed to fetch; and no step changes
\* the row, the placements or the stored object of a xorb sealed before it.
C19_XorbTiledAndFrozen ==
    /\ []XorbsTiled
    /\ [][\A k \in 1..Len(XetXorb) :
             /\ Len(XetXorb') >= k
             /\ XetXorb'[k] = XetXorb[k]
             /\ PlacementsOf(XetBlockPlacement', XetXorb[k].xorb_id)
                   = PlacementsOf(XetBlockPlacement, XetXorb[k].xorb_id)
             /\ object_exists(XetXorb[k].storage_key)'
             /\ s3'[XetXorb[k].storage_key] = s3[XetXorb[k].storage_key]]_vars

\* The first xorb was sealed from a batch whose first block failed to fetch: its
\* placements start with the second block at offset 0 and do not name the first
\* block; and a put has been answered since.
C19_Witness ==
    /\ resp.op = "put_block"
    /\ Len(XetXorb) >= 1
    /\ XetBlock[1].size > 0
    /\ LET ps == PlacementsOf(XetBlockPlacement, XetXorb[1].xorb_id)
       IN  /\ Len(ps) >= 2
           /\ ps[1].block = 2
           /\ ps[1].offset = 0
           /\ ps[2].offset = ps[1].length
           /\ \A i \in 1..Len(ps) : ps[i].block # 1

----------------------------------------------------------------------------
(* Properties of the shard manager and the shard endpoints *)

\* a blob is a header that counts exactly the records behind it
WellFormedShard(content) ==
    /\ Len(content) >= SHARD_HEADER_SIZE
    /\ content[1] = XSHD
    /\ content[2] = 1
    /\ Len(content) = SHARD_HEADER_SIZE + SHARD_ENTRY_SIZE * content[3]

\* the rows of the shard registry that carry shard_id
RowsOf(table, shard_id) == {i \in 1..Len(table) : table[i].shard_id = shard_id}

\* C12: a generate_global_shard call whose writes succeed returns, for a
\* non-empty placement table, the digest of the serialized table (so two calls
\* against an unchanged table return the same id) and leaves exactly one row for
\* that id; with an empty placement table it creates no shard.
C12_ShardDeterministic ==
    [][generate_global_shard("none")
       => IF Len(XetBlockPlacement) = 0
          THEN UNCHANGED <<s3, XetShard>>
          ELSE /\ resp'.status = 1
               /\ resp'.hash = sha256_shard(global_shard_content(XetBlockPlacement))
               /\ Cardinality(RowsOf(XetShard', resp'.hash)) = 1]_vars

\* the records a shard blob holds
EntryCount(content) ==
    IF Len(content) <= SHARD_HEADER_SIZE THEN 0
    ELSE (Len(content) - SHARD_HEADER_SIZE) \div SHARD_ENTRY_SIZE

\* every small shard has its object, and the object is well-formed
SourcesWellFormed ==
    \A k \in 1..Len(small_shards) :
        /\ XetShard[small_shards[k]].storage_key \in DOMAIN s3
        /\ WellFormedShard(s3[XetShard[small_shards[k]].storage_key])

\* C13: compact_shards changes nothing unless at least 2 registered shards are
\* small; when it merges well-formed sources, the entry count of the new shard
\* is the sum of the entry counts of the source shards it deletes, also when
\* the read of a source shard fails.
C13_MergeKeepsEntries ==
    [][\A failing \in FlakyShards, undeletable \in FlakyShards :
          compact_shards(failing, undeletable, NoShardFault)
          => /\ (Len(small_shards) < 2) => UNCHANGED <<s3, XetShard>>
             /\ (SourcesWellFormed /\ resp'.status = 1)
                   => XetShard'[Len(XetShard')].size
                         = SHARD_HEADER_SIZE + SHARD_ENTRY_SIZE *
                              SumAll([k \in 1..Len(small_shards) |->
                                         EntryCount(s3[XetShard[small_shards[k]].storage_key])])]_vars

\* C14: a compact_shards call that fails at any step leaves every source shard
\* with its registry row and its origin object.
C14_SourcesSurviveFailure ==
    [][\A fault \in ShardFaults(Len(small_shards)) :
          (fault # NoShardFault /\ compact_shards({}, {}, fault))
          => /\ XetShard' = XetShard
             /\ \A k \in 1..Len(small_shards) :
                   XetShard[small_shards[k]].storage_key \in DOMAIN s3
                      => XetShard[small_shards[k]].storage_key \in DOMAIN s3']_vars

\* C15: the blob a merging compact_shards call uploads is well-formed: its
\* length is the header plus one record per counted entry.
C15_BlobWellFormed ==
    [][(compact_shards({}, {}, NoShardFault) /\ resp'.status = 1)
       => WellFormedShard(merged_shard_content(all_entries(small_shards, {})))]_vars

\* C16: put_shard with a body whose digest is not the id answers 400 and writes
\* neither the origin nor the registry; head_shard and get_shard answer 404
\* exactly when the shard is in neither the registry nor the origin.
C16_ShardLikeBlock ==
    [][/\ \A in \in PutShardInputs :
             (sha256_shard(in[2]) # in[1] /\ put_shard(in[1], in[2], in[3]))
             => /\ resp'.status = 400
                /\ UNCHANGED <<s3, XetShard>>
       /\ \A shard_id \in ShardIds :
             (head_shard(shard_id) \/ get_shard(shard_id))
             => ((resp'.status = 404)
                    <=> /\ RowsOf(XetShard, shard_id) = {}
                        /\ ~object_exists(get_xet_shard_s3_key(shard_id)))]_vars

----------------------------------------------------------------------------
(* The cache service being out *)

\* the cache service is disabled, or every call to it raises
RedisOut(down) == ~redis_enabled \/ {"hot", "set", "bloom"} \subseteq down

\* C17: with the cache service disabled, or every cache call raising, each
\* cache helper answers a miss or returns without effect, and head_block,
\* get_block and put_block answer what the registry and the origin alone
\* determine: head 200 exactly for a block in the registry or the origin, get
\* 404 exactly for a block without an origin object, put 200 for a matching
\* digest with the object written and the block registered.
C17_CacheOutDegrades ==
    [][\A h \in Hashes, down \in SUBSET Tiers :
          RedisOut(down)
          => /\ ~check_block_exists_fast(redis, h, down)
             /\ ~check_block_exists_bloom(redis, h, down)
             /\ ~get_cached_block(redis, h, down).found
             /\ mark_block_as_existing(redis, h, down) = redis
             /\ mark_block_in_bloom(redis, h, down) = redis
             /\ \A b \in Bodies : cache_block(redis, h, b, down) = redis
             /\ head_block(h, down)
                   => /\ resp'.status \in {200, 404}
                      /\ (resp'.status = 200)
                            <=> \/ BlockId(XetBlock, h) # 0
                                \/ object_exists(get_xet_block_s3_key(h))
             /\ get_block(h, down)
                   => /\ resp'.status \in {200, 307, 404}
                      /\ (resp'.status = 404) <=> ~object_exists(get_xet_block_s3_key(h))
                      /\ (resp'.status = 200) => resp'.body = s3[get_xet_block_s3_key(h)]
             /\ \A b \in Bodies :
                   put_block(h, b, down, "none")
                   => IF sha256(b) = h
                      THEN /\ resp'.status = 200
                           /\ s3'[get_xet_block_s3_key(h)] = b
                           /\ BlockId(XetBlock', h) # 0
                           /\ redis' = redis
                      ELSE resp'.status = 400]_vars

\* The cache service is enabled and still empty although a block was put, and an
\* existence check has just been answered 200: every cache call of the put and
\* of the check raised.
C17_Witness ==
    /\ redis_enabled
    /\ acked # << >>
    /\ redis = [kv |-> << >>, blocks_all |-> {}, bloom |-> {}]
    /\ resp.op = "head_block"
    /\ resp.status = 200

----------------------------------------------------------------------------
(* Properties of the metrics singleton *)

\* hits + misses is the number of calls, and no counter is negative
CountersAddUp ==
    /\ metrics.dedup_hits + metrics.dedup_misses = calls
    /\ metrics.dedup_hits >= 0
    /\ metrics.dedup_misses >= 0
    /\ metrics.total_bytes_saved >= 0
    /\ metrics.total_bytes_uploaded >= 0

\* a hit changes only dedup_hits (+1) and total_bytes_saved (+size), a miss only
\* dedup_misses (+1) and total_bytes_uploaded (+size), and no step lowers a counter
CountersStep ==
    /\ \A size \in DedupSizes :
          /\ record_dedup_call(TRUE, size)
                => metrics' = [metrics EXCEPT !.dedup_hits = @ + 1,
                                              !.total_bytes_saved = @ + size]
          /\ record_dedup_call(FALSE, size)
                => metrics' = [metrics EXCEPT !.dedup_misses = @ + 1,
                                              !.total_bytes_uploaded = @ + size]
    /\ metrics'.dedup_hits >= metrics.dedup_hits
    /\ metrics'.dedup_misses >= metrics.dedup_misses
    /\ metrics'.total_bytes_saved >= metrics.total_bytes_saved
    /\ metrics'.total_bytes_uploaded >= metrics.total_bytes_uploaded

\* C20, as stated: after any sequence of record_dedup calls hits + misses is the
\* number of calls, a hit changes only dedup_hits and total_bytes_saved, a miss
\* only dedup_misses and total_bytes_uploaded, no counter decreases, and the ratio
\* get_dedup_ratio answers is 0 with no observation and otherwise gives
\* ratio * (hits + misses) = hits.
C20_RatioExact ==
    /\ []CountersAddUp
    /\ [][CountersStep]_vars
    /\ [](resp.op = "get_dedup_ratio"
            => IF Observations = 0 THEN resp.body = float_zero
               ELSE float_times_int(resp.body, Observations)
                        = float_of_int(metrics.dedup_hits))

\* C20, amended: the counters as stated; the ratio is 0.0 with no observation and
\* otherwise the double nearest to hits / (hits + misses): it is 0 exactly when
\* there is no hit, 1 exactly when there is no miss, and ratio * (hits + misses),
\* computed in doubles, is hits or a double next to hits.
C20_RatioRounded ==
    /\ []CountersAddUp
    /\ [][CountersStep]_vars
    /\ [](resp.op = "get_dedup_ratio"
            => IF Observations = 0 THEN resp.body = float_zero
               ELSE LET hits == float_of_int(metrics.dedup_hits)
                        back == float_times_int(resp.body, Observations)
                    IN  /\ (resp.body = float_zero) <=> (metrics.dedup_hits = 0)
                        /\ (resp.body = float_of_int(1)) <=> (metrics.dedup_misses = 0)
                        /\ resp.body.exp <= 0
                        /\ \/ back = hits
                           \/ /\ metrics.dedup_hits > 0
                              /\ back \in {float_next_down(hits), float_next_up(hits)})

\* The ratio of 15 hits in 22 observations has just been answered, and
\* multiplied by 22 it is not 15.
C20_Witness ==
    /\ resp.op = "get_dedup_ratio"
    /\ calls = 22
    /\ metrics.dedup_hits = 15
    /\ metrics.total_bytes_saved > 0
    /\ metrics.total_bytes_uploaded > 0
    /\ float_times_int(resp.body, 22) = float_next_down(float_of_int(15))

----------------------------------------------------------------------------
(* Properties of the background worker *)

\* C21: the worker never ends because of an exception: an exception of the sweep
\* or of a periodic job is caught, the worker sleeps, and a next iteration with
\* a new chunking sweep always starts.
C21_WorkerNeverStops ==
    /\ [](worker.pc \in {"scan", "chunk", "jobs", "sleep", "error_sleep"})
    /\ (worker.pc = "error_sleep") ~> (worker.pc = "scan")
    /\ []<>(worker.pc = "scan")

\* A sweep is under way after exceptions of the sweep query, of a chunking and
\* of the periodic jobs were caught.
C21_Witness ==
    /\ worker.caught = {"scan", "chunk", "jobs"}
    /\ worker.pc = "chunk"
    /\ worker.todo # << >>

----------------------------------------------------------------------------
(* Properties of reconstructions between sweeps *)

\* the answer in resp is a layout-based reconstruction of file 1; every action
\* that writes a table answers in resp, so the tables are those the request read
RealReconstruction ==
    /\ resp.op = "get_reconstruction"
    /\ file_layout(1) # << >>

\* the URL under which the answer lists block b
UrlOf(b) == resp.body.fetch_info[XetBlock[b].hash][1].url

\* C22: in a layout-based reconstruction every layout entry of a placed block is
\* answered with the storage key of the placement's xorb and the inclusive byte
\* range [offset, offset + length - 1], and every entry of an unplaced block with
\* the block's own object and no range.
C22_DescriptorPerPlacement ==
    RealReconstruction =>
        \A j \in 1..Len(file_layout(1)) :
            LET b == file_layout(1)[j].block
            IN  /\ resp.body.terms[j].hash = XetBlock[b].hash
                /\ XetBlock[b].hash \in DOMAIN resp.body.fetch_info
                /\ IF b \in placed_blocks
                   THEN \E p \in 1..Len(XetBlockPlacement) :
                           /\ XetBlockPlacement[p].block = b
                           /\ UrlOf(b).key = XorbRow(XetXorb, XetBlockPlacement[p].xorb).storage_key
                           /\ UrlOf(b).range = <<XetBlockPlacement[p].offset,
                                                 XetBlockPlacement[p].offset
                                                    + XetBlockPlacement[p].length - 1>>
                   ELSE /\ UrlOf(b).key = get_xet_block_s3_key(XetBlock[b].hash)
                        /\ UrlOf(b).range = << >>

\* a reconstruction with one block of the file placed, at an offset above 0,
\* and another still standalone
C22_Witness ==
    /\ RealReconstruction
    /\ \E j \in 1..Len(file_layout(1)) : file_layout(1)[j].block \notin placed_blocks
    /\ \E p \in 1..Len(XetBlockPlacement) :
          /\ XetBlockPlacement[p].offset > 0
          /\ \E j \in 1..Len(file_layout(1)) :
                file_layout(1)[j].block = XetBlockPlacement[p].block

----------------------------------------------------------------------------
(* Backfill of the faster tiers by head_block *)

\* C23: a head_block that finds the block in the registry or at the origin,
\* with the cache service up for the whole call, leaves the block's bit set in
\* the bloom filter, the hash in the membership set, and a Block row.
C23_BackfillFasterTiers ==
    [][\A h \in Hashes :
          (/\ redis_enabled
           /\ head_block_tier(h, {}) \in {"db", "s3"}
           /\ head_block(h, {}))
          => /\ BloomPos(h) \in redis'.bloom
             /\ h \in redis'.blocks_all
             /\ BlockId(XetBlock', h) # 0]_vars

----------------------------------------------------------------------------
(* Order of the writes of put_block *)

\* the hashes with an entry in the disk cache, the hot cache or the membership set
CachedHashes == (DOMAIN disk) \cup (DOMAIN redis.kv) \cup redis.blocks_all

\* C24: put_block writes the origin object, then the registry row, then the
\* cache and membership tiers; so in every state, those left by a put that
\* failed between two writes included, a cache or membership entry has its
\* registry row (a bloom bit: a registered block of that bit) and a registry row
\* has its origin object.
C24_OriginThenRegistryThenCaches ==
    /\ \A h \in CachedHashes : BlockId(XetBlock, h) # 0
    /\ \A pos \in redis.bloom :
          \E i \in 1..Len(XetBlock) : BloomPos(XetBlock[i].hash) = pos
    /\ \A i \in 1..Len(XetBlock) : object_exists(get_xet_block_s3_key(XetBlock[i].hash))

\* one put stopped between the origin write and the registry write, another
\* between the registry write and the membership writes, after a disk-cache
\* write
C24_Witness ==
    /\ \E h \in Hashes :
          /\ object_exists(get_xet_block_s3_key(h))
          /\ BlockId(XetBlock, h) = 0
    /\ \E h \in Hashes :
          /\ BlockId(XetBlock, h) # 0
          /\ h \in DOMAIN disk
          /\ h \notin redis.blocks_all
          /\ redis.bloom = {}
    /\ redis_enabled

----------------------------------------------------------------------------
(* Chunking a file more than once *)

\* the layout rows of file f, in table order
LayoutRowsOf(f) == SelectSeq(XetFileLayout, LAMBDA r : r.file = f)

\* the rows of file f are one row per window of its content, numbered from 0
OneLayout(f) ==
    \/ LayoutRowsOf(f) = << >>
    \/ /\ Len(LayoutRowsOf(f)) = Len(split_chunks(raw_content(f)))
       /\ \A j \in 1..Len(LayoutRowsOf(f)) :
             /\ LayoutRowsOf(f)[j].sequence_order = j - 1
             /\ XetBlock[LayoutRowsOf(f)[j].block].hash = sha256(split_chunks(raw_content(f))[j])

\* C25: chunk_lfs_file on a file that has a layout answers True and writes
\* nothing (registry, origin, caches, layout); the layout of a file, once
\* written, never changes, and holds each window once.
C25_ChunkOnce ==
    /\ []OneLayout(1)
    /\ [][already_chunked(1) =>
             /\ XetFileLayout' = XetFileLayout
             /\ resp'.op = "chunk_lfs_file" =>
                   /\ resp'.status = 1
                   /\ UNCHANGED <<s3, XetBlock, redis, disk, XetXorb, XetBlockPlacement>>]_vars

\* a file of three windows has its layout and chunk_lfs_file has answered True
C25_Witness ==
    /\ Len(LayoutRowsOf(1)) = 3
    /\ resp.op = "chunk_lfs_file"
    /\ resp.status = 1

----------------------------------------------------------------------------
(* Chunking under failures, as the background worker runs it *)

\* the worker calls chunk_lfs_file for the first file of its list, and the call
\* returns (True or False) rather than raise
ChunkCall ==
    /\ worker.pc = "chunk"
    /\ worker.todo # << >>
    /\ worker'.pc = "chunk"

\* C26: after a chunk_lfs_file call, completed or failed at the registration of
\* a block, its upload, the layout insert or with the cache marking failing,
\* the registry holds all layout rows of the file with their Block rows (answer
\* True), or no layout row of the file and no Block row more than before (answer
\* False).
C26_ChunkAtomic ==
    /\ [](\A f \in 1..Len(File) : OneLayout(f))
    /\ [][ChunkCall =>
             LET f == Head(worker.todo)
             IN  IF resp'.status = 1
                 THEN /\ \E r \in 1..Len(XetFileLayout') : XetFileLayout'[r].file = f
                      /\ Len(XetFileLayout') - Len(XetFileLayout)
                            = Len(split_chunks(raw_content(f)))
                 ELSE /\ XetFileLayout' = XetFileLayout
                      /\ XetBlock' = XetBlock]_vars

\* a chunking that failed at the layout insert of its second iteration, after
\* both blocks were uploaded: no row of the registry, orphan objects at the
\* origin; and another file is chunked, with the cache marking failing
C26_Witness ==
    /\ resp.op = "chunk_lfs_file"
    /\ resp.status = 0
    /\ \E f \in 1..Len(File) :
          /\ LayoutRowsOf(f) = << >>
          /\ \A j \in 1..Len(split_chunks(raw_content(f))) :
                object_exists(get_xet_block_s3_key(sha256(split_chunks(raw_content(f))[j])))
          /\ BlockId(XetBlock, sha256(split_chunks(raw_content(f))[1])) = 0
    /\ \E f \in 1..Len(File) : Len(LayoutRowsOf(f)) = 2
    /\ redis.blocks_all = {}


\* file f is an LFS file, not deleted, without a layout row
Eligible(f) ==
    /\ File[f].lfs
    /\ ~File[f].is_deleted
    /\ LayoutRowsOf(f) = << >>

\* the raw object cannot be fetched
FetchFails == [at |-> 0, stage |-> "fetch"]

\* C27: a chunk_lfs_file whose fetch of the raw object fails answers False and
\* writes nothing: registry, layout, origin, caches and membership tiers stay as
\* they were; the file is still eligible, and every sweep that starts selects
\* the eligible files (up to the limit of one sweep), this one among them.
C27_FetchFailureRetried ==
    [][/\ \A down \in WorkerDowns :
             worker_chunk(TRUE, down, FetchFails) =>
                /\ resp'.op = "chunk_lfs_file"
                /\ resp'.status = 0
                /\ UNCHANGED <<s3, XetBlock, XetFileLayout, redis, disk, File>>
                /\ Eligible(Head(worker.todo))
       /\ worker_scan(TRUE) =>
             \A f \in 1..Len(File) :
                (Eligible(f) /\ Cardinality({g \in 1..f : Eligible(g)}) <= FILES_PER_SWEEP)
                   => \E i \in 1..Len(worker'.todo) : worker'.todo[i] = f]_vars

\* file 1 is selected again in a later iteration, after an attempt that answered
\* False and with nothing written so far
C27_Witness ==
    /\ worker.loop_count >= 1
    /\ worker.pc = "chunk"
    /\ worker.todo # << >>
    /\ Head(worker.todo) = 1
    /\ resp.op = "chunk_lfs_file"
    /\ resp.status = 0
    /\ XetBlock = << >>
    /\ \A key \in DOMAIN s3 : key[1] = "lfs"
    /\ redis.blocks_all = {}

----------------------------------------------------------------------------
(* A block that cannot be fetched during a sweep *)

\* the batches the sweep to come hands to _create_xorb_from_batch
NextBatches ==
    IF unplaced_blocks = << >> THEN << >>
    ELSE sweep_batches(unplaced_blocks, 1, << >>, 0)

\* the xorb in which block b is placed after the step (0: in none)
XorbAfter(b) ==
    IF \E p \in 1..Len(XetBlockPlacement') : XetBlockPlacement'[p].block = b
    THEN XetBlockPlacement'[CHOOSE p \in 1..Len(XetBlockPlacement') :
                                XetBlockPlacement'[p].block = b].xorb
    ELSE 0

\* C28: in a sweep where the fetch of one selected block b fails and nothing
\* else does, b gets no placement and is selected again by the next sweep; the
\* other blocks of its batch are sealed in one xorb, as long as their sizes
\* together; and every block of the other batches is placed: the sweep goes on.
C28_SkipUnfetchable ==
    [][\A b \in SelectedBlocks :
          compact_blocks({b}, NoFault) =>
             /\ XorbAfter(b) = 0
             /\ XetBlock'[b].size > 0
             /\ resp'.body.skipped = <<b>>
             /\ \A j \in 1..Len(NextBatches) :
                   LET others == SelectSeq(NextBatches[j], LAMBDA c : c # b)
                   IN  others # << >> =>
                          /\ XorbAfter(others[1]) > Len(XetXorb)
                          /\ \A i \in 1..Len(others) :
                                XorbAfter(others[i]) = XorbAfter(others[1])
                          /\ \A k \in 1..Len(NextBatches) :
                                (k # j /\ SelectSeq(NextBatches[k], LAMBDA c : c # b) # << >>)
                                   => XorbAfter(SelectSeq(NextBatches[k], LAMBDA c : c # b)[1])
                                         # XorbAfter(others[1])
                          /\ XetXorb'[XorbAfter(others[1])].size
                                = SumAll([i \in 1..Len(others) |-> XetBlock[others[i]].size])]_vars

\* a sweep over three batches has skipped one block of the first batch and
\* sealed three xorbs; the skipped block is still without a placement
C28_Witness ==
    /\ resp.op = "compact_blocks"
    /\ resp.status = 3
    /\ ~resp.body.raised
    /\ Len(resp.body.skipped) = 1
    /\ resp.body.skipped[1] \notin placed_blocks
    /\ Len(PlacementsOf(XetBlockPlacement, 1)) = 4
    /\ Len(XetXorb) = 3

----------------------------------------------------------------------------
(* What the URLs of a reconstruction deliver *)

\* the bytes a GET of the URL delivers: the object, or its inclusive byte range
\* (a URL of a key without an object delivers nothing of the block)
FetchUrl(url) ==
    IF url.key \notin DOMAIN s3 THEN <<-1>>
    ELSE IF url.range = << >> THEN s3[url.key]
    ELSE SubSeq(s3[url.key], url.range[1] + 1, url.range[2] + 1)

\* C29: whatever sweeps (completed, or stopped at an upload or at a
\* transaction) ran before a reconstruction request of a chunked file, each URL
\* it answers delivers the bytes of its block: the block's own object when the
\* block has no placement, and a byte range of the xorb's object when it has.
C29_UrlsDeliverBlocks ==
    RealReconstruction =>
        \A j \in 1..Len(file_layout(1)) :
            LET b == file_layout(1)[j].block
            IN  /\ sha256(FetchUrl(UrlOf(b))) = XetBlock[b].hash
                /\ FetchUrl(UrlOf(b)) = split_chunks(CompactFile)[j]
                /\ (UrlOf(b).range # << >>) <=> (b \in placed_blocks)
                /\ object_exists(get_xet_block_s3_key(XetBlock[b].hash))

\* a reconstruction after a sweep that skipped one block of the file, a sweep
\* that stopped at its transaction and a sweep that placed the skipped block:
\* the two blocks of the file are in different xorbs and a xorb object has no row
C29_Witness ==
    /\ RealReconstruction
    /\ orphan_xorbs # {}
    /\ \A j \in 1..Len(file_layout(1)) : file_layout(1)[j].block \in placed_blocks
    /\ XetBlockPlacement[PlacementId(file_layout(1)[1].block)].xorb
          # XetBlockPlacement[PlacementId(file_layout(1)[2].block)].xorb

----------------------------------------------------------------------------
(* Rows and objects of xorbs under failing sweeps *)

\* every placement names a xorb row, and the object of every xorb row is at the
\* origin, as long as the row says
RowsHaveObjects ==
    /\ \A p \in 1..Len(XetBlockPlacement) :
          \E x \in 1..Len(XetXorb) : XetXorb[x].xorb_id = XetBlockPlacement[p].xorb
    /\ \A x \in 1..Len(XetXorb) :
          /\ XetXorb[x].storage_key \in DOMAIN s3
          /\ Len(s3[XetXorb[x].storage_key]) = XetXorb[x].size

\* C30: in every state, those left by a sweep that stopped at an upload or at a
\* transaction included, every placement row names a xorb row and every xorb
\* row has its whole object at the origin; the placement rows a sweep adds name
\* xorb rows the same sweep adds, each xorb row added has placements, and no
\* row is ever removed or changed.  A stopped sweep may leave a xorb object
\* without rows.
C30_RowsOnlyAfterUpload ==
    /\ []RowsHaveObjects
    /\ [][/\ Len(XetXorb') >= Len(XetXorb)
          /\ Len(XetBlockPlacement') >= Len(XetBlockPlacement)
          /\ SubSeq(XetXorb', 1, Len(XetXorb)) = XetXorb
          /\ SubSeq(XetBlockPlacement', 1, Len(XetBlockPlacement)) = XetBlockPlacement
          /\ \A p \in (Len(XetBlockPlacement) + 1)..Len(XetBlockPlacement') :
                \E x \in (Len(XetXorb) + 1)..Len(XetXorb') :
                   XetXorb'[x].xorb_id = XetBlockPlacement'[p].xorb
          /\ \A x \in (Len(XetXorb) + 1)..Len(XetXorb') :
                \E p \in (Len(XetBlockPlacement) + 1)..Len(XetBlockPlacement') :
                   XetXorb'[x].xorb_id = XetBlockPlacement'[p].xorb]_vars

\* a sweep has committed its first xorb and stopped at the transaction of its
\* second: the object of the second is at the origin without rows
C30_Witness ==
    /\ resp.op = "compact_blocks"
    /\ resp.body.raised
    /\ resp.status = 1
    /\ orphan_xorbs # {}
    /\ Len(XetXorb) = 1
    /\ Unplaced # {}

----------------------------------------------------------------------------
(* Byte ranges of the fallback reconstruction *)

\* C40: in every fallback reconstruction, of a file of size 0 too, the byte
\* range of each descriptor is as long as its term (end - start + 1 =
\* unpacked_length) and lies within [0, file_size).
C40_RangeAsLongAsTerm ==
    (resp.op = "get_reconstruction" /\ file_layout(1) = << >>) =>
        \A i \in 1..Len(resp.body.terms) :
            LET t == resp.body.terms[i]
                r == resp.body.fetch_info[t.hash][1].url_range
            IN  /\ r.end - r.start + 1 = t.unpacked_length
                /\ 0 <= r.start
                /\ r.end < File[1].size

----------------------------------------------------------------------------
(* Recorded sizes of blocks *)

\* C35: in every state the size of every Block row is the length of the object
\* stored at the origin for its hash, whichever of put_block, chunk_lfs_file
\* and head_block created the row.
C35_SizeIsObjectLength ==
    \A i \in 1..Len(XetBlock) :
        /\ object_exists(get_xet_block_s3_key(XetBlock[i].hash))
        /\ XetBlock[i].size = Len(s3[get_xet_block_s3_key(XetBlock[i].hash)])

----------------------------------------------------------------------------
(* Block compaction and the background worker *)

\* C36: while the background worker runs forever and every remote call
\* succeeds, every registered block of positive size eventually has a
\* placement in a xorb.
C36_WorkerCompactsBlocks ==
    \A i \in 1..MaxBlocks :
        (Len(XetBlock) >= i /\ XetBlock[i].size > 0) ~> (i \in placed_blocks)

----------------------------------------------------------------------------
(* The period of the worker's jobs *)

\* C32: every iteration of the background loop, the ones that raise included,
\* advances the ordinal that decides the periodic jobs, and in the iterations
\* whose ordinal is a multiple of JOB_PERIOD shard generation is followed by
\* shard compaction and the cleanup of the disk cache.
C32_JobsEveryTenthIteration ==
    /\ [][(worker.pc \in {"scan", "chunk"} /\ worker'.pc \in {"sleep", "jobs", "error_sleep"})
             => worker'.loop_count = (worker.loop_count + 1) % JOB_PERIOD]_vars
    /\ [][worker.pc = "jobs" => worker'.pc = "compact_shards"]_vars

----------------------------------------------------------------------------
(* utils/disk_cache.py: cleanup_cache *)

\* cfg.xet.cas_cache_max_size_gb * 1024 * 1024 * 1024, in units of the model
CacheCap == 5
\* the modification times a cache file can carry
MaxMtime == 3

\* sum(f.stat().st_size for f in cache_dir.glob('**/*') if f.is_file())
RECURSIVE cache_total_size(_)
cache_total_size(D) ==
    IF DOMAIN D = {} THEN 0
    ELSE LET f == CHOOSE f \in DOMAIN D : TRUE
         IN  Len(D[f]) + cache_total_size(Remove(D, {f}))

\* the listing sorted the other way round: newest first
RECURSIVE sorted_by_mtime_newest_first(_, _)
sorted_by_mtime_newest_first(files, mt) ==
    IF files = {} THEN << >>
    ELSE LET newest == CHOOSE f \in files :
                          \A g \in files : mt[f] > mt[g] \/ (mt[f] = mt[g] /\ f <= g)
         IN  <<newest>> \o sorted_by_mtime_newest_first(files \ {newest}, mt)

\* sorted(files, key=lambda f: f.stat().st_mtime): oldest first, files of one
\* mtime in the order of the listing (the sort is stable)
RECURSIVE sorted_by_mtime(_, _)
sorted_by_mtime(files, mt) ==
    IF files = {} THEN << >>
    ELSE LET oldest == CHOOSE f \in files :
                          \A g \in files : mt[f] < mt[g] \/ (mt[f] = mt[g] /\ f <= g)
         IN  <<oldest>> \o sorted_by_mtime(files \ {oldest}, mt)

\* for f in files: if bytes_to_delete <= 0: break; f.unlink(); bytes_to_delete -= size.
\* bytes_to_delete is kept ten times its value, so that 0.8 * max_size is exact.
RECURSIVE unlinked(_, _, _)
unlinked(D, files, bytes_to_delete10) ==
    IF files = << >> \/ bytes_to_delete10 <= 0 THEN {}
    ELSE {Head(files)} \cup
         unlinked(D, Tail(files), bytes_to_delete10 - 10 * Len(D[Head(files)]))

\* cleanup_cache(); mt are the modification times of the cached files when it runs
cleanup_cache(mt) ==
    LET total_size == cache_total_size(disk)
        max_size == CacheCap
        files == sorted_by_mtime(DOMAIN disk, mt)
        deleted == IF total_size > max_size
                   THEN unlinked(disk, files, 10 * total_size - 8 * max_size)
                   ELSE {}
    IN  /\ disk' = Remove(disk, deleted)
        /\ resp' = Reply("cleanup_cache", 0, Cardinality(deleted),
                         [mtime |-> mt, total_size |-> total_size], NoUrl)
        /\ UNCHANGED <<s3, XetBlock, redis, redis_enabled, File, XetShard, XetFileLayout,
                       XetXorb, XetBlockPlacement, metrics, calls, worker, acked, inflight>>

----------------------------------------------------------------------------
(* The disk cache under cleanup *)

\* the blocks that put_block may have saved to the cache
CacheBlocks == {<< >>, <<0>>, <<1>>, <<0, 0>>, <<0, 1>>, <<0, 0, 0>>}

InitCache ==
    /\ \E saved \in SUBSET CacheBlocks :
          disk = [h \in {sha256(b) : b \in saved} |->
                     CHOOSE b \in saved : sha256(b) = h]
    /\ s3 = << >>
    /\ XetBlock = << >>
    /\ redis = [kv |-> << >>, blocks_all |-> {}, bloom |-> {}]
    /\ redis_enabled = TRUE
    /\ metrics = [dedup_hits |-> 0, dedup_misses |-> 0,
                  total_bytes_saved |-> 0, total_bytes_uploaded |-> 0]
    /\ calls = 0
    /\ worker = WorkerIdle
    /\ acked = << >>
    /\ inflight = << >>
    /\ resp = NoResp
    /\ File = << >>
    /\ XetFileLayout = << >>
    /\ XetXorb = << >>
    /\ XetBlockPlacement = << >>
    /\ XetShard = << >>

NextCache == \E mt \in [DOMAIN disk -> 1..MaxMtime] : cleanup_cache(mt)

SpecCache == InitCache /\ [][NextCache]_vars

\* C34: cleanup_cache deletes nothing when the total size of the cache is at
\* most the cap; above the cap it deletes oldest first (no file is deleted
\* while an older one is kept), stops as soon as what remains is at most 80% of
\* the cap, and so leaves the cache under the cap.
C34_OldestFirstToEightyPercent ==
    [][resp'.op = "cleanup_cache" =>
          LET mt == resp'.body.mtime
              deleted == DOMAIN disk \ DOMAIN disk'
              newest == {f \in deleted : \A g \in deleted : mt[g] <= mt[f]}
          IN  /\ disk' = Remove(disk, deleted)
              /\ cache_total_size(disk) <= CacheCap => deleted = {}
              /\ \A f \in deleted, g \in DOMAIN disk' : mt[f] <= mt[g]
              /\ deleted # {} =>
                    \E f \in newest :
                       10 * (cache_total_size(disk') + Len(disk[f])) > 8 * CacheCap
              /\ cache_total_size(disk) > CacheCap =>
                    10 * cache_total_size(disk') <= 8 * CacheCap
              /\ cache_total_size(disk') <= CacheCap]_vars

\* a cleanup has deleted two files of different age and kept a newer one
C34_Witness ==
    /\ resp.op = "cleanup_cache"
    /\ resp.status >= 2
    /\ disk # << >>
    /\ \E f \in DOMAIN resp.body.mtime \ DOMAIN disk :
          \E g \in DOMAIN resp.body.mtime \ DOMAIN disk :
             resp.body.mtime[f] < resp.body.mtime[g]
    /\ \A f \in DOMAIN resp.body.mtime \ DOMAIN disk :
          \A g \in DOMAIN disk : resp.body.mtime[f] < resp.body.mtime[g]

----------------------------------------------------------------------------
(* Shards are written once *)

\* C33: shards are never changed in place: the object at the origin location
\* of a registered shard is the content whose digest is the shard's id, and
\* neither that object nor the registry row changes for as long as the row
\* exists.
C33_ShardsNeverMutated ==
    /\ [](\A i \in 1..Len(XetShard) :
             /\ object_exists(XetShard[i].storage_key)
             /\ sha256_shard(s3[XetShard[i].storage_key]) = XetShard[i].shard_id)
    /\ [][\A i \in 1..Len(XetShard) :
             ShardRow(XetShard', XetShard[i].shard_id) # 0
                => /\ XetShard'[ShardRow(XetShard', XetShard[i].shard_id)] =
                         XetShard[ShardRow(XetShard, XetShard[i].shard_id)]
                   /\ object_exists(XetShard[i].storage_key)
                         => /\ XetShard[i].storage_key \in DOMAIN s3'
                            /\ s3'[XetShard[i].storage_key] = s3[XetShard[i].storage_key]]_vars

----------------------------------------------------------------------------
(* The worker's shard jobs over a registry that holds shards *)

\* the rows and objects that put_shard left for `bodies` (shards.py:63-80)
RECURSIVE put_shard_rows(_)
put_shard_rows(bodies) ==
    IF bodies = {} THEN << >>
    ELSE LET b == CHOOSE b \in bodies : TRUE
         IN  <<[shard_id |-> sha256_shard(b),
                storage_key |-> get_xet_shard_s3_key(sha256_shard(b)),
                size |-> Len(b)]>> \o put_shard_rows(bodies \ {b})

\* No file to chunk; up to MaxShardBlocks blocks placed in one xorb; the shards
\* that clients have put.
InitCycle ==
    /\ \E n \in 0..MaxShardBlocks, saved \in SUBSET ShardBodies :
          LET blocks == [i \in 1..n |-> block_content(i - 1, 2)]
              store == [key \in {get_xet_block_s3_key(sha256(blocks[i])) : i \in 1..n} |->
                           CHOOSE c \in {blocks[i] : i \in 1..n} :
                               get_xet_block_s3_key(sha256(c)) = key]
              shards == [key \in {get_xet_shard_s3_key(sha256_shard(b)) : b \in saved} |->
                            CHOOSE b \in saved : get_xet_shard_s3_key(sha256_shard(b)) = key]
          IN  /\ XetBlock = [i \in 1..n |-> [hash |-> sha256(blocks[i]), size |-> 2]]
              /\ XetShard = put_shard_rows(saved)
              /\ \E made \in {_create_xorb_from_batch(store, [i \in 1..n |-> i], {}, 1)} :
                    IF made.made
                    THEN /\ s3 = Put(store, made.key, made.content) @@ shards
                         /\ XetXorb = <<made.xorb>>
                         /\ XetBlockPlacement = made.placements
                    ELSE /\ s3 = store @@ shards
                         /\ XetXorb = << >>
                         /\ XetBlockPlacement = << >>
    /\ redis = [kv |-> << >>, blocks_all |-> {}, bloom |-> {}]
    /\ disk = << >>
    /\ redis_enabled = FALSE
    /\ metrics = [dedup_hits |-> 0, dedup_misses |-> 0,
                  total_bytes_saved |-> 0, total_bytes_uploaded |-> 0]
    /\ calls = 0
    /\ worker = WorkerIdle
    /\ acked = << >>
    /\ inflight = << >>
    /\ resp = Reply("none", NoShardId, 0, << >>, NoUrl)
    /\ File = << >>
    /\ XetFileLayout = << >>

NextCycle ==
    \/ worker_scan(TRUE)
    \/ worker_count
    \/ worker_jobs("none")
    \/ worker_sleep

SpecCycle == InitCycle /\ [][NextCycle]_vars

\* The event loop keeps running the worker.
SpecCycleLive == SpecCycle /\ WF_worker(NextCycle)

\* the objects stored under the shard keys
ShardObjects == [key \in {k \in DOMAIN s3 : k[1] = "cas/shards"} |-> s3[key]]

----------------------------------------------------------------------------
(* The chunking sweep with more stuck files than it selects *)

\* FILES_PER_SWEEP files that never get a layout (half of them empty, the raw
\* object of the others missing) and, after them, one file of one window
StuckFiles == FILES_PER_SWEEP
StarveContent(f) ==
    IF f > StuckFiles THEN <<1>> ELSE IF 2 * f <= StuckFiles THEN << >> ELSE <<0>>

InitStarve ==
    /\ File = [f \in 1..(StuckFiles + 1) |->
                  [sha256 |-> sha256(StarveContent(f)), size |-> Len(StarveContent(f)),
                   lfs |-> TRUE, is_deleted |-> FALSE]]
    /\ s3 = (lfs_key(sha256(<< >>)) :> << >>) @@ (lfs_key(sha256(<<1>>)) :> <<1>>)
    /\ XetBlock = << >>
    /\ redis = [kv |-> << >>, blocks_all |-> {}, bloom |-> {}]
    /\ disk = << >>
    /\ redis_enabled = TRUE
    /\ metrics = [dedup_hits |-> 0, dedup_misses |-> 0,
                  total_bytes_saved |-> 0, total_bytes_uploaded |-> 0]
    /\ calls = 0
    /\ worker = WorkerIdle
    /\ acked = << >>
    /\ inflight = << >>
    /\ resp = NoResp
    /\ XetFileLayout = << >>
    /\ XetXorb = << >>
    /\ XetBlockPlacement = << >>
    /\ XetShard = << >>

\* the worker with every call of the database and of the cache succeeding
NextStarve ==
    \/ worker_scan(TRUE)
    \/ /\ worker.todo # << >>
       /\ worker_chunk(TRUE, {}, NoFault)
    \/ worker_count
    \/ worker_jobs("none")
    \/ worker_sleep

SpecStarve == InitStarve /\ [][NextStarve]_vars

\* The event loop keeps running the worker.
SpecStarveLive == SpecStarve /\ WF_worker(NextStarve)

\* C37: while the worker runs for ever, every eligible file that is not empty
\* and whose raw object can be fetched eventually gets a layout, also when
\* FILES_PER_SWEEP other eligible files never get one.
C37_NoStarvation ==
    \A f \in 1..(StuckFiles + 1) :
        (/\ Eligible(f)
         /\ File[f].size > 0
         /\ object_exists(lfs_key(File[f].sha256)))
            ~> (LayoutRowsOf(f) # << >>)

----------------------------------------------------------------------------
(* Requests racing for one block: get_or_create taken statement by statement *)

\* most requests under way at once
MaxRequests == 3

\* the index on XetBlock.hash is unique: the hash of a Block is globally unique
hash_is_unique == TRUE

\* get_or_create, first statement: the lookup.  Where the request goes next.
get_or_create_get(table, h) ==
    IF BlockId(table, h) # 0 THEN "found" ELSE "create"

\* a bare create in place of get_or_create: the IntegrityError leaves the handler
plain_create(table, h, size) ==
    IF hash_is_unique /\ BlockId(table, h) # 0
    THEN [table |-> table, pc |-> "raised", conflict |-> TRUE]
    ELSE [table |-> Append(table, [hash |-> h, size |-> size]), pc |-> "created",
          conflict |-> FALSE]

\* get_or_create, after a lookup that found nothing: the insert; an
\* IntegrityError of the insert is caught and the lookup is made again
get_or_create_create(table, h, size) ==
    IF hash_is_unique /\ BlockId(table, h) # 0
    THEN [table |-> table, pc |-> "reget", conflict |-> TRUE]
    ELSE [table |-> Append(table, [hash |-> h, size |-> size]), pc |-> "created",
          conflict |-> FALSE]

\* get_or_create, the lookup after the IntegrityError; when it finds nothing the
\* IntegrityError is raised again
get_or_create_reget(table, h) ==
    IF BlockId(table, h) # 0 THEN "found" ELSE "raised"

\* the block all the requests are about, and the file made of it
RaceBlock == <<1>>
RaceHash == sha256(RaceBlock)

\* defaults={"size": ...} of the three callers (cas.py:76, cas.py:139, chunker.py:58)
default_size(op) == IF op = "head_block" THEN 0 ELSE Len(RaceBlock)

NewRequest(op) == [op |-> op, pc |-> "start", conflict |-> FALSE]

\* request i moves to `pc`
Moved(i, pc) == [inflight EXCEPT ![i].pc = pc]

\* put_block up to its get_or_create: the body is read and verified, the object stored
put_block_start(i) ==
    /\ inflight[i].op = "put_block" /\ inflight[i].pc = "start"
    /\ put_block_verify(RaceHash, RaceBlock)
    /\ s3' = Put(s3, get_xet_block_s3_key(RaceHash), RaceBlock)
    /\ inflight' = Moved(i, "get")
    /\ UNCHANGED <<XetBlock, redis, disk, redis_enabled, metrics, calls, acked, worker,
                   resp, fileVars>>

\* put_block after its get_or_create
put_block_finish(i) ==
    /\ inflight[i].op = "put_block" /\ inflight[i].pc \in {"found", "created"}
    /\ metrics' = record_dedup(metrics, FALSE, Len(RaceBlock))
    /\ calls' = calls + 1
    /\ disk' = save_to_cache(disk, RaceHash, RaceBlock, {})
    /\ redis' = mark_block_in_bloom(
                   mark_block_as_existing(cache_block(redis, RaceHash, RaceBlock, {}),
                                          RaceHash, {}),
                   RaceHash, {})
    /\ acked' = Put(acked, RaceHash, RaceBlock)
    /\ resp' = Reply("put_block", RaceHash, 200, <<RaceHash, Len(RaceBlock)>>, NoUrl)
    /\ inflight' = Moved(i, "done")
    /\ UNCHANGED <<s3, XetBlock, redis_enabled, worker, fileVars>>

\* head_block up to `await object_exists`: the cache tiers and the registry
head_block_start(i) ==
    /\ inflight[i].op = "head_block" /\ inflight[i].pc = "start"
    /\ LET tier == head_block_tier(RaceHash, {})
       IN  IF tier \in {"bloom", "fast"}
           THEN /\ resp' = Reply("head_block", RaceHash, 200, << >>, NoUrl)
                /\ inflight' = Moved(i, "done")
                /\ UNCHANGED <<redis, metrics, calls>>
           ELSE IF tier = "db"
           THEN /\ redis' = mark_block_as_existing(redis, RaceHash, {})
                /\ metrics' = record_dedup(metrics, TRUE,
                                           XetBlock[BlockId(XetBlock, RaceHash)].size)
                /\ calls' = calls + 1
                /\ resp' = Reply("head_block", RaceHash, 200, << >>, NoUrl)
                /\ inflight' = Moved(i, "done")
           ELSE /\ inflight' = Moved(i, "origin")
                /\ UNCHANGED <<redis, metrics, calls, resp>>
    /\ UNCHANGED <<s3, XetBlock, disk, redis_enabled, acked, worker, fileVars>>

\* head_block when object_exists returns
head_block_origin(i) ==
    /\ inflight[i].op = "head_block" /\ inflight[i].pc = "origin"
    /\ IF object_exists(get_xet_block_s3_key(RaceHash))
       THEN /\ inflight' = Moved(i, "get")
            /\ UNCHANGED resp
       ELSE /\ inflight' = Moved(i, "done")
            /\ resp' = Reply("head_block", RaceHash, 404, << >>, NoUrl)
    /\ UNCHANGED <<s3, XetBlock, redis, disk, redis_enabled, metrics, calls, acked, worker,
                   fileVars>>

\* head_block after its get_or_create
head_block_finish(i) ==
    /\ inflight[i].op = "head_block" /\ inflight[i].pc \in {"found", "created"}
    /\ redis' = mark_block_as_existing(redis, RaceHash, {})
    /\ metrics' = record_dedup(metrics, TRUE, XetBlock[BlockId(XetBlock, RaceHash)].size)
    /\ calls' = calls + 1
    /\ resp' = Reply("head_block", RaceHash, 200, << >>, NoUrl)
    /\ inflight' = Moved(i, "done")
    /\ UNCHANGED <<s3, XetBlock, disk, redis_enabled, acked, worker, fileVars>>

\* chunk_lfs_file(File 1) up to its get_or_create: the layout check and the fetch
chunk_start(i) ==
    /\ inflight[i].op = "chunk_lfs_file" /\ inflight[i].pc = "start"
    /\ IF already_chunked(1)
       THEN /\ resp' = Reply("chunk_lfs_file", File[1].sha256, 1, << >>, NoUrl)
            /\ inflight' = Moved(i, "done")
       ELSE IF ~object_exists(lfs_key(File[1].sha256))
       THEN /\ resp' = Reply("chunk_lfs_file", File[1].sha256, 0, << >>, NoUrl)
            /\ inflight' = Moved(i, "done")
       ELSE /\ inflight' = Moved(i, "get")
            /\ UNCHANGED resp
    /\ UNCHANGED <<s3, XetBlock, redis, disk, redis_enabled, metrics, calls, acked, worker,
                   fileVars>>

\* chunk_lfs_file after its get_or_create: upload, layout row, marks, commit
chunk_finish(i) ==
    /\ inflight[i].op = "chunk_lfs_file" /\ inflight[i].pc \in {"found", "created"}
    /\ LET chunks == split_chunks(raw_content(1))
       IN  /\ s3' = upload_chunks(s3, chunks, Len(chunks))
           /\ XetFileLayout' = XetFileLayout \o layout_rows(XetBlock, 1, chunks)
           /\ redis' = mark_chunks(redis, chunks, Len(chunks), {})
    /\ resp' = Reply("chunk_lfs_file", File[1].sha256, 1, << >>, NoUrl)
    /\ inflight' = Moved(i, "done")
    /\ UNCHANGED <<XetBlock, disk, redis_enabled, File, XetShard, XetXorb, XetBlockPlacement,
                   metrics, calls, acked, worker>>

\* the lookup of get_or_create, in any of the three callers
request_get(i) ==
    /\ inflight[i].pc = "get"
    /\ inflight' = Moved(i, get_or_create_get(XetBlock, RaceHash))
    /\ UNCHANGED <<s3, XetBlock, redis, disk, redis_enabled, metrics, calls, acked, worker,
                   resp, fileVars>>

\* the insert of get_or_create
request_create(i) ==
    /\ inflight[i].pc = "create"
    /\ \E made \in {get_or_create_create(XetBlock, RaceHash, default_size(inflight[i].op))} :
          /\ XetBlock' = made.table
          /\ inflight' = [inflight EXCEPT ![i].pc = made.pc, ![i].conflict = made.conflict]
    /\ UNCHANGED <<s3, redis, disk, redis_enabled, metrics, calls, acked, worker, resp,
                   File, XetShard, XetFileLayout, XetXorb, XetBlockPlacement>>

\* the second lookup of get_or_create
request_reget(i) ==
    /\ inflight[i].pc = "reget"
    /\ inflight' = Moved(i, get_or_create_reget(XetBlock, RaceHash))
    /\ UNCHANGED <<s3, XetBlock, redis, disk, redis_enabled, metrics, calls, acked, worker,
                   resp, fileVars>>

RaceOps == {"put_block", "head_block", "chunk_lfs_file"}

\* File 1 is the block, not chunked yet; MaxRequests requests arrive together
InitRace ==
    /\ File = <<[sha256 |-> sha256(RaceBlock), size |-> Len(RaceBlock), lfs |-> TRUE,
                 is_deleted |-> FALSE]>>
    /\ s3 = (lfs_key(sha256(RaceBlock)) :> RaceBlock)
    /\ inflight \in {[i \in 1..MaxRequests |-> NewRequest(ops[i])] :
                        ops \in [1..MaxRequests -> RaceOps]}
    /\ XetBlock = << >>
    /\ redis = [kv |-> << >>, blocks_all |-> {}, bloom |-> {}]
    /\ disk = << >>
    /\ redis_enabled \in BOOLEAN
    /\ metrics = [dedup_hits |-> 0, dedup_misses |-> 0,
                  total_bytes_saved |-> 0, total_bytes_uploaded |-> 0]
    /\ calls = 0
    /\ worker = WorkerIdle
    /\ acked = << >>
    /\ resp = NoResp
    /\ XetFileLayout = << >>
    /\ XetXorb = << >>
    /\ XetBlockPlacement = << >>
    /\ XetShard = << >>

NextRace ==
    \/ \E i \in 1..Len(inflight) : put_block_start(i)
    \/ \E i \in 1..Len(inflight) : put_block_finish(i)
    \/ \E i \in 1..Len(inflight) : head_block_start(i)
    \/ \E i \in 1..Len(inflight) : head_block_origin(i)
    \/ \E i \in 1..Len(inflight) : head_block_finish(i)
    \/ \E i \in 1..Len(inflight) : chunk_start(i)
    \/ \E i \in 1..Len(inflight) : chunk_finish(i)
    \/ \E i \in 1..Len(inflight) : request_get(i)
    \/ \E i \in 1..Len(inflight) : request_create(i)
    \/ \E i \in 1..Len(inflight) : request_reget(i)

SpecRace == InitRace /\ [][NextRace]_vars

\* the rows of the registry for the raced hash
RaceRows == {r \in 1..Len(XetBlock) : XetBlock[r].hash = RaceHash}

\* C39: however put_block, head_block and chunk_lfs_file requests on one hash
\* interleave, the registry never holds more than one row for the hash, holds
\* exactly one once a request has found or created it, and no request that
\* went into get_or_create fails.
C39_OneRowAllSucceed ==
    /\ Cardinality(RaceRows) <= 1
    /\ \A i \in 1..Len(inflight) :
          /\ inflight[i].pc # "raised"
          /\ inflight[i].pc \in {"found", "created"} => Cardinality(RaceRows) = 1
    /\ (\A i \in 1..Len(inflight) : inflight[i].pc = "done") =>
          (\A i \in 1..Len(inflight) :
              inflight[i].op \in {"put_block", "chunk_lfs_file"}
                 => Cardinality(RaceRows) = 1)

\* a put, a head and a chunking have all finished, and two of them lost the
\* insert to the third
C39_Witness ==
    /\ \A i \in 1..Len(inflight) : inflight[i].pc = "done"
    /\ {inflight[i].op : i \in 1..Len(inflight)} = RaceOps
    /\ Cardinality({i \in 1..Len(inflight) : inflight[i].conflict}) >= 2
    /\ Cardinality(RaceRows) = 1

----------------------------------------------------------------------------
(* Compaction sweeps running side by side *)

\* sweeps under way at once, and the blocks waiting for them
MaxSweeps == 2
MaxRaceBlocks == 3

NewSweep == [op |-> "compact_blocks", pc |-> "select", selected |-> << >>]

\* the sweep looks at its list again before it places a block
sweep_selection_rechecked(i) ==
    SelectSeq(inflight[i].selected, LAMBDA b : b \notin placed_blocks)

\* for block in unplaced_blocks (line 36): the list the query returned
sweep_selection(i) == inflight[i].selected

\* lines 24-27: the query for the blocks without placement
sweep_select(i) ==
    /\ inflight[i].pc = "select"
    /\ inflight' = [inflight EXCEPT ![i].pc = "sweep", ![i].selected = unplaced_blocks]
    /\ UNCHANGED <<s3, XetBlock, redis, disk, redis_enabled, File, XetShard, XetFileLayout,
                   XetXorb, XetBlockPlacement, metrics, calls, worker, acked, resp>>

\* lines 36-46: the batches of the selected blocks are fetched, uploaded and
\* committed
sweep_commit(i, failing) ==
    /\ inflight[i].pc = "sweep"
    /\ compact_selected(sweep_selection(i), failing, NoFault)
    /\ inflight' = [inflight EXCEPT ![i].pc = "done"]
    /\ UNCHANGED worker

\* one to MaxRaceBlocks registered blocks with their objects, none placed
InitSweeps ==
    /\ \E n \in 1..MaxRaceBlocks :
          LET blocks == [i \in 1..n |-> block_content(i - 1, 2)]
          IN  /\ XetBlock = [i \in 1..n |-> [hash |-> sha256(blocks[i]), size |-> 2]]
              /\ s3 = [key \in {get_xet_block_s3_key(sha256(blocks[i])) : i \in 1..n} |->
                          CHOOSE c \in {blocks[i] : i \in 1..n} :
                              get_xet_block_s3_key(sha256(c)) = key]
    /\ inflight = [i \in 1..MaxSweeps |-> NewSweep]
    /\ XetXorb = << >>
    /\ XetBlockPlacement = << >>
    /\ redis = [kv |-> << >>, blocks_all |-> {}, bloom |-> {}]
    /\ disk = << >>
    /\ redis_enabled = FALSE
    /\ metrics = [dedup_hits |-> 0, dedup_misses |-> 0,
                  total_bytes_saved |-> 0, total_bytes_uploaded |-> 0]
    /\ calls = 0
    /\ worker = WorkerIdle
    /\ acked = << >>
    /\ resp = NoResp
    /\ File = << >>
    /\ XetFileLayout = << >>
    /\ XetShard = << >>

\* the blocks whose fetch may raise during one sweep: none, or one of them
SweepsFailing == {{}} \cup {{b} : b \in 1..Len(XetBlock)}

NextSweeps ==
    \/ \E i \in 1..Len(inflight) : sweep_select(i)
    \/ \E i \in 1..Len(inflight), failing \in SweepsFailing : sweep_commit(i, failing)

SpecSweeps == InitSweeps /\ [][NextSweeps]_vars

\* the xorbs that hold a placement of block b
XorbsOf(table, b) == {table[p].xorb : p \in {q \in 1..Len(table) : table[q].block = b}}

\* C31: a sweep places every block of its selection that it can fetch in a
\* xorb of its own, whether or not another sweep has placed the block since
\* the selection: two sweeps that both select a block before either commits
\* leave it with two placements in two different xorbs.
C31_SweepsPlaceTwice ==
    [][\A i \in 1..Len(inflight), failing \in SweepsFailing :
          sweep_commit(i, failing) =>
             \A k \in 1..Len(inflight[i].selected) :
                LET b == inflight[i].selected[k]
                IN  b \notin failing =>
                       Cardinality(XorbsOf(XetBlockPlacement', b)) =
                          Cardinality(XorbsOf(XetBlockPlacement, b)) + 1]_vars

\* both sweeps are over and a block has two placements in two different xorbs
C31_Witness ==
    /\ \A i \in 1..Len(inflight) : inflight[i].pc = "done"
    /\ \E b \in 1..Len(XetBlock) :
          \E p, q \in 1..Len(XetBlockPlacement) :
             /\ XetBlockPlacement[p].block = b
             /\ XetBlockPlacement[q].block = b
             /\ XetBlockPlacement[p].xorb # XetBlockPlacement[q].xorb

====
